---- MODULE Spec2Model ----
(***************************************************************************)
(* A model of graft's mapping planner (internal/generator): the type-      *)
(* directed assignment resolver, the two-phase helper planner, the field   *)
(* resolver, the error-propagation analysis, and the control flow of the   *)
(* code the node templates emit.                                           *)
(*                                                                         *)
(* Types are structural terms, as go/types builds them:                    *)
(*   <<"basic", n>>  <<"named", n>>  <<"ptr", e>>  <<"slice", e>>          *)
(*   <<"array", e, len>>  <<"map", key, e>>  <<"struct", n>>  <<"iface">>  *)
(***************************************************************************)
EXTENDS Integers, Sequences, FiniteSets, TLC

(***************************************************************************)
(* Bounds of the model.                                                    *)
(***************************************************************************)
\* longest sequence / largest map a generated loop is run on
MaxLen == 3
\* number of interfaces named in one generation run (Config.Interfaces)
MaxInterfaces == 2
\* number of custom functions the package under generation declares
MaxFuncs == 2

(***************************************************************************)
(* go/types terms.                                                         *)
(***************************************************************************)
BasicT(n) == <<"basic", n>>
NamedT(n) == <<"named", n>>
PtrT(e) == <<"ptr", e>>
SliceT(e) == <<"slice", e>>
ArrayT(e, n) == <<"array", e, n>>
MapT(k, e) == <<"map", k, e>>
StructT(n) == <<"struct", n>>
AnyT == <<"iface", "any">>

IntT == BasicT("int")
StringT == BasicT("string")

TKind(t) == t[1]
TElem(t) == t[2]
TKey(t) == t[2]
TVal(t) == t[3]
TLen(t) == t[3]

\* A struct field: name, type, exported flag and the parsed struct tag
\* (keys map, mapsrc, mapfn; "" when absent).
Fld(n, t) == [name |-> n, type |-> t, exported |-> TRUE, map |-> "", mapsrc |-> "", mapfn |-> ""]
FldSrc(n, t, p) == [Fld(n, t) EXCEPT !.mapsrc = p]
FldFn(n, t, f) == [Fld(n, t) EXCEPT !.mapfn = f]
FldSrcFn(n, t, p, f) == [Fld(n, t) EXCEPT !.mapsrc = p, !.mapfn = f]
FldMap(n, t, m) == [Fld(n, t) EXCEPT !.map = m]
FldPriv(n, t) == [Fld(n, t) EXCEPT !.exported = FALSE]

(***************************************************************************)
(* The package under generation: its declared types.  DeclUnder gives the  *)
(* underlying type of a named type, StructFields the fields of a struct    *)
(* in declaration order.                                                   *)
(***************************************************************************)
StructNames ==
  {"A", "B", "N", "ND", "P", "Q", "PD", "QD", "Inner", "InnerDTO", "Outer", "OuterDTO",
   "Top", "TopDTO", "Elem", "ElemDTO", "SliceContainer", "SliceContainerDTO",
   "MapContainer", "MapContainerDTO", "Profile", "Detail", "Input", "Output",
   "User", "UserDTO", "X", "Y", "Multi", "MultiDTO", "Hidden", "HiddenDTO", "Team", "TeamDTO",
   "Loose", "LooseDTO", "Dual", "DualDTO", "PartA", "PartB", "OutIdx",
   "Core", "Meta", "Extra", "Combined", "Node", "NodeDTO", "Ptr_User"}

StructFields(n) ==
  CASE n = "A" -> <<Fld("Text", StringT), Fld("B", PtrT(NamedT("B")))>>
    [] n = "B" -> <<Fld("Text", StringT), Fld("A", PtrT(NamedT("A")))>>
    [] n = "N" -> <<Fld("Val", IntT), Fld("Next", PtrT(NamedT("N"))), Fld("Kids", SliceT(NamedT("N")))>>
    [] n = "ND" -> <<Fld("Val", IntT), Fld("Next", PtrT(NamedT("ND"))), Fld("Kids", SliceT(NamedT("ND")))>>
    [] n = "P" -> <<Fld("Q", PtrT(NamedT("Q")))>>
    [] n = "Q" -> <<Fld("P", PtrT(NamedT("P")))>>
    [] n = "PD" -> <<Fld("Q", PtrT(NamedT("QD")))>>
    [] n = "QD" -> <<Fld("P", PtrT(NamedT("PD")))>>
    [] n = "Inner" -> <<Fld("V", IntT)>>
    [] n = "InnerDTO" -> <<Fld("V", IntT)>>
    [] n = "Outer" -> <<Fld("In", NamedT("Inner"))>>
    [] n = "OuterDTO" -> <<Fld("In", NamedT("InnerDTO"))>>
    [] n = "Top" -> <<Fld("O", NamedT("Outer"))>>
    [] n = "TopDTO" -> <<Fld("O", NamedT("OuterDTO"))>>
    [] n = "Elem" -> <<Fld("V", IntT)>>
    [] n = "ElemDTO" -> <<Fld("V", IntT)>>
    [] n = "SliceContainer" -> <<Fld("Items", SliceT(NamedT("Elem")))>>
    [] n = "SliceContainerDTO" -> <<FldFn("Items", SliceT(NamedT("ElemDTO")), "ElemToElemDTO")>>
    [] n = "MapContainer" -> <<Fld("Items", MapT(StringT, NamedT("Elem")))>>
    [] n = "MapContainerDTO" -> <<FldFn("Items", MapT(StringT, NamedT("ElemDTO")), "ElemToElemDTO")>>
    [] n = "Profile" -> <<Fld("Name", StringT), Fld("Detail", NamedT("Detail"))>>
    [] n = "Detail" -> <<Fld("Code", StringT)>>
    [] n = "Input" -> <<Fld("P", NamedT("Profile")), Fld("Label", StringT), Fld("Name", StringT)>>
    [] n = "Output" -> <<FldSrc("UserName", StringT, "P.Name"), FldSrc("Code", StringT, "P.Detail.Code"),
                         Fld("Label", StringT), FldSrc("Name", StringT, "P.Name")>>
    [] n = "User" -> <<Fld("ID", IntT), Fld("Name", StringT)>>
    [] n = "UserDTO" -> <<Fld("ID", IntT), Fld("Name", StringT)>>
    [] n = "X" -> <<Fld("N", IntT)>>
    [] n = "Y" -> <<Fld("N", IntT)>>
    [] n = "Multi" -> <<Fld("F1", IntT), Fld("F2", SliceT(NamedT("Inner"))), Fld("F3", IntT)>>
    [] n = "MultiDTO" -> <<Fld("F1", IntT), Fld("F2", SliceT(NamedT("InnerDTO"))), Fld("F3", IntT)>>
    [] n = "Hidden" -> <<FldPriv("v", IntT)>>
    [] n = "HiddenDTO" -> <<FldPriv("v", IntT)>>
    [] n = "Team" -> <<Fld("Lead", PtrT(NamedT("User"))), Fld("Members", SliceT(NamedT("User")))>>
    [] n = "TeamDTO" -> <<Fld("Lead", PtrT(NamedT("UserDTO"))), Fld("Members", SliceT(NamedT("UserDTO")))>>
    [] n = "Loose" -> <<Fld("Keep", IntT), Fld("Odd", StringT), Fld("In", NamedT("Inner")), Fld("Tail", IntT)>>
    [] n = "LooseDTO" -> <<FldSrc("Far", IntT, "In.Missing.Keep"), FldSrc("Near", IntT, "Missing.Keep"),
                           Fld("Gone", IntT), Fld("Odd", SliceT(IntT)), FldFn("Keep", IntT, "Nope"),
                           FldFn("Lost", IntT, "Nope"), FldFn("In", NamedT("InnerDTO"), "Join"),
                           FldFn("Stray", NamedT("InnerDTO"), "InnerToDTO"), Fld("Tail", IntT)>>
    [] n = "Dual" -> <<Fld("V", NamedT("Inner")), Fld("W", NamedT("Inner"))>>
    [] n = "DualDTO" -> <<FldSrcFn("V", NamedT("InnerDTO"), "W", "InnerToDTO"),
            FldSrcFn("X", NamedT("InnerDTO"), "W", "InnerToDTO")>>
    [] n = "PartA" -> <<Fld("Common", StringT), Fld("ValueA", IntT)>>
    [] n = "PartB" -> <<Fld("Common", StringT), Fld("ValueB", IntT)>>
    [] n = "OutIdx" -> <<FldSrc("ValueA", IntT, "p0.ValueA"), FldSrc("ValueB", IntT, "p1.ValueB"),
                         FldSrc("Common", StringT, "p0.Common")>>
    [] n = "Ptr_User" -> <<Fld("ID", IntT)>>
    [] n = "Node" -> <<Fld("Next", PtrT(NamedT("Node"))), Fld("Owner", NamedT("User"))>>
    [] n = "NodeDTO" -> <<Fld("Next", PtrT(NamedT("NodeDTO"))), Fld("Owner", NamedT("UserDTO"))>>
    [] n = "Core" -> <<Fld("ID", IntT), Fld("Name", StringT)>>
    [] n = "Meta" -> <<Fld("Version", IntT)>>
    [] n = "Extra" -> <<Fld("Version", IntT), Fld("Note", StringT)>>
    [] n = "Combined" -> <<Fld("ID", IntT), Fld("Name", StringT), Fld("Version", IntT),
                           Fld("Note", StringT), Fld("Info", NamedT("Meta")), Fld("Gone", IntT),
                           FldSrc("Alt", StringT, "c.Missing.Name"), FldSrc("Alias", StringT, "zz.Name")>>
    [] OTHER -> <<>>

\* Named types that are not structs: `type IDs []int`, `type UserID int`.
DeclUnder(n) ==
  CASE n \in StructNames -> StructT(n)
    [] n = "IDs" -> SliceT(IntT)
    [] n = "UserID" -> IntT
    [] OTHER -> BasicT(n)

\* types.Type.Underlying
Underlying(t) == IF TKind(t) = "named" THEN DeclUnder(TElem(t)) ELSE t

\* types.Identical: structural identity of terms; named types by identity.
Identical(a, b) == a = b

\* Go's named types: declared types and the predeclared basic types.
IsNamedType(t) == TKind(t) \in {"named", "basic"}

\* types.AssignableTo(V, T), on the types of this package: identical types,
\* identical underlying types with one side unnamed, or T the empty interface.
AssignableTo(v, t) ==
  \/ Identical(v, t)
  \/ (Underlying(v) = Underlying(t) /\ (~IsNamedType(v) \/ ~IsNamedType(t)))
  \/ t = AnyT

RECURSIVE TypeString(_)
\* types.TypeString(t, g.qualifier) for types of the current package.
TypeString(t) ==
  CASE TKind(t) = "ptr" -> "*" \o TypeString(TElem(t))
    [] TKind(t) = "slice" -> "[]" \o TypeString(TElem(t))
    [] TKind(t) = "array" -> "[" \o ToString(TLen(t)) \o "]" \o TypeString(TElem(t))
    [] TKind(t) = "map" -> "map[" \o TypeString(TKey(t)) \o "]" \o TypeString(TVal(t))
    [] OTHER -> t[2]

NoStruct == ""

\* underlyingStruct: the struct behind t or behind the pointee of t ("" for
\* nil), and whether t is a pointer to it.
underlyingStruct(t) ==
  LET structOf(u, isPtr) ==
        IF TKind(u) = "struct" THEN [s |-> u[2], isPtr |-> isPtr]
                               ELSE [s |-> NoStruct, isPtr |-> FALSE]
  IN structOf(Underlying(IF TKind(t) = "ptr" THEN TElem(t) ELSE t), TKind(t) = "ptr")

zeroValue(t) == IF TKind(t) = "ptr" THEN "nil" ELSE TypeString(t) \o "{}"

isStructLike(t) == TKind(Underlying(t)) = "struct"

isCollectionLike(t) == TKind(t) \in {"slice", "array", "map"}

prefixDest(destPtr) == IF destPtr THEN "mapped." ELSE "dst."

prefixSrc(param, isPtr) == IF isPtr THEN "*" \o param \o "." ELSE param \o "."

RECURSIVE tok(_)
\* the type token of helperName; a basic type takes the fallback branch,
\* whose sanitising leaves an alphanumeric name as it is.
tok(t) ==
  CASE TKind(t) = "ptr" -> "Ptr_" \o tok(TElem(t))
    [] TKind(t) = "slice" -> "Slice_" \o tok(TElem(t))
    [] TKind(t) = "array" -> "Array_" \o ToString(TLen(t)) \o "_" \o tok(TElem(t))
    [] TKind(t) = "map" -> "Map_" \o tok(TKey(t)) \o "_To_" \o tok(TVal(t))
    [] OTHER -> t[2]

helperName(srcType, destType, composite) ==
  (IF composite THEN "mapc" ELSE "map") \o "_" \o tok(srcType) \o "_to_" \o tok(destType)

customFuncKey(src, dest, hasErr) ==
  IF hasErr THEN src \o "->" \o dest \o "#err" ELSE src \o "->" \o dest

(***************************************************************************)
(* The intermediate representation: codeNode, helperPlan, registryEntry.   *)
(***************************************************************************)
nodeKindComment == "comment"
nodeKindIfNilReturn == "ifNilReturn"
nodeKindDestInit == "destInit"
nodeKindAssignDirect == "assignDirect"
nodeKindAssignCast == "assignCast"
nodeKindAssignHelper == "assignHelper"
nodeKindAssignMethod == "assignMethod"
nodeKindAssignFunc == "assignFunc"
nodeKindSliceMap == "sliceMap"
nodeKindArrayMap == "arrayMap"
nodeKindMapMap == "mapMap"
nodeKindPtrStructMap == "ptrStructMap"
nodeKindPtrMethodMap == "ptrMethodMap"
nodeKindPtrFuncMap == "ptrFuncMap"
nodeKindReturn == "return"
nodeKindUnsupported == "unsupported"

regKindInterfaceMethod == "interfaceMethod"
regKindCustomFunc == "customFunc"

\* the zero codeNode
codeNode ==
  [Kind |-> "", Dest |-> "", Src |-> "", CastType |-> "", Helper |-> "", Method |-> "",
   Arg |-> "", Comment |-> "", Var |-> "", Zero |-> "", WithError |-> FALSE, DestType |-> "",
   ElemType |-> "", SrcType |-> "", Expr |-> "", Children |-> <<>>, LoopWithError |-> FALSE,
   UseContext |-> FALSE]

registryEntry(name, hasError, kind) == [Name |-> name, HasError |-> hasError, Kind |-> kind]

\* the zero helperPlan
helperPlan ==
  [Name |-> "", SrcGoType |-> <<>>, DestGoType |-> <<>>, SrcIsPtr |-> FALSE, DestIsPtr |-> FALSE,
   UnderDestType |-> "", ZeroReturn |-> "", CustomFuncName |-> "", CustomFuncHasError |-> FALSE,
   Populated |-> FALSE, Composite |-> FALSE]

\* the zero helperModel
helperModel ==
  [Name |-> "", SrcType |-> "", DestType |-> "", Body |-> <<>>, HasError |-> FALSE,
   HasContext |-> FALSE, SrcIsPtr |-> FALSE, DestIsPtr |-> FALSE, UnderDestType |-> "",
   ZeroReturn |-> ""]

\* a map with no entries
EmptyMap == [k \in {} |-> ""]

\* newGenerator: empty registry and memo table, nil plan and model slices.
\* plansCap is the capacity of the helperPlans backing array and realloc
\* records that an append moved it since realloc was last cleared.
newGenerator ==
  [registry |-> EmptyMap, helperNames |-> EmptyMap, helperPlans |-> <<>>, helperModels |-> <<>>,
   plansCap |-> 0, realloc |-> FALSE]

\* capacity the runtime gives a grown slice of helperPlan values
growCap(cap) == IF cap = 0 THEN 1 ELSE 2 * cap

\* g.helperPlans = append(g.helperPlans, plan)
appendPlan(g, plan) ==
  IF Len(g.helperPlans) < g.plansCap
    THEN [g EXCEPT !.helperPlans = Append(@, plan)]
    ELSE [g EXCEPT !.helperPlans = Append(@, plan), !.plansCap = growCap(@), !.realloc = TRUE]

\* the custom function ensureStructHelper attaches to a plan: the fallible
\* variant first, then the non-fallible one; "" for none.
planCustomFunc(registry, baseKey) ==
  IF (baseKey \o "#err") \in DOMAIN registry
       /\ registry[baseKey \o "#err"].Kind = regKindCustomFunc
       /\ registry[baseKey \o "#err"].HasError
    THEN [name |-> registry[baseKey \o "#err"].Name, hasError |-> TRUE]
    ELSE IF baseKey \in DOMAIN registry /\ registry[baseKey].Kind = regKindCustomFunc
           THEN [name |-> registry[baseKey].Name, hasError |-> FALSE]
           ELSE [name |-> "", hasError |-> FALSE]


\* ensureStructHelper without the test of the memo table: every call
\* reserves anew
ensureStructHelperNoMemo(g, srcType, destType) ==
  LET reserve(key, name, src, dPtr, cf) ==
        IF src.s = NoStruct THEN [name |-> name, g |-> [g EXCEPT !.helperNames = (key :> name) @@ @]]
        ELSE [name |-> name,
              g |-> appendPlan([g EXCEPT !.helperNames = (key :> name) @@ @],
                      [helperPlan EXCEPT !.Name = name, !.SrcGoType = srcType, !.DestGoType = destType,
                         !.SrcIsPtr = src.isPtr, !.DestIsPtr = dPtr,
                         !.UnderDestType = IF dPtr /\ TKind(destType) = "ptr"
                                             THEN TypeString(TElem(destType)) ELSE "",
                         !.ZeroReturn = IF dPtr THEN "nil" ELSE zeroValue(destType),
                         !.CustomFuncName = cf.name, !.CustomFuncHasError = cf.hasError])]
      keyed(key) == reserve(key, helperName(srcType, destType, FALSE), underlyingStruct(srcType),
                            underlyingStruct(destType).isPtr, planCustomFunc(g.registry, key))
  IN keyed(TypeString(srcType) \o "->" \o TypeString(destType))

\* ensureStructHelper asked for the pointees of two pointer types
ensureStructHelperPointee(g, srcType, destType) ==
  ensureStructHelperNoMemo(g, IF TKind(srcType) = "ptr" THEN TElem(srcType) ELSE srcType,
                           IF TKind(destType) = "ptr" THEN TElem(destType) ELSE destType)

ensureStructHelper(g, srcType, destType) ==
  LET reserve(key, name, src, dPtr, cf) ==
        IF key \in DOMAIN g.helperNames THEN [name |-> g.helperNames[key], g |-> g]
        ELSE IF src.s = NoStruct
          THEN [name |-> name, g |-> [g EXCEPT !.helperNames = (key :> name) @@ @]]
        ELSE [name |-> name,
              g |-> appendPlan([g EXCEPT !.helperNames = (key :> name) @@ @],
                      [helperPlan EXCEPT !.Name = name, !.SrcGoType = srcType, !.DestGoType = destType,
                         !.SrcIsPtr = src.isPtr, !.DestIsPtr = dPtr,
                         !.UnderDestType = IF dPtr /\ TKind(destType) = "ptr"
                                             THEN TypeString(TElem(destType)) ELSE "",
                         !.ZeroReturn = IF dPtr THEN "nil" ELSE zeroValue(destType),
                         !.CustomFuncName = cf.name, !.CustomFuncHasError = cf.hasError])]
      keyed(key) == reserve(key, helperName(srcType, destType, FALSE), underlyingStruct(srcType),
                            underlyingStruct(destType).isPtr, planCustomFunc(g.registry, key))
  IN keyed(TypeString(srcType) \o "->" \o TypeString(destType))

ensureCompositeHelper(g, srcType, destType) ==
  LET reserve(key, name) ==
        IF key \in DOMAIN g.helperNames THEN [name |-> g.helperNames[key], g |-> g]
        ELSE [name |-> name,
              g |-> appendPlan([g EXCEPT !.helperNames = (key :> name) @@ @],
                      [helperPlan EXCEPT !.Name = name, !.SrcGoType = srcType,
                                         !.DestGoType = destType, !.Composite = TRUE])]
  IN reserve("comp:" \o TypeString(srcType) \o "->" \o TypeString(destType),
             helperName(srcType, destType, TRUE))

(***************************************************************************)
(* The assignment resolver.                                                *)
(***************************************************************************)
\* every registry entry is usable, whoever asks
usableProviderAlways(registry, key, currentMethod) == key \in DOMAIN registry

\* a registry entry buildAssignmentNodes may call from currentMethod: it
\* exists, is not the current method itself, and is a custom function or is
\* looked up from inside an interface method.
usableProvider(registry, key, currentMethod) ==
  /\ key \in DOMAIN registry
  /\ registry[key].Name # currentMethod
  /\ (registry[key].Kind = regKindCustomFunc \/ currentMethod # "")

\* the registry key of a pair of types
pairKey(srcType, destType) == TypeString(srcType) \o "->" \o TypeString(destType)

\* the branch buildAssignmentNodes takes once the pair is neither identical
\* nor assignable and has no usable provider: the switch on the destination
\* type, the record pair, unsupported
structuralStrategy(registry, destType, srcType, currentMethod) ==
  IF TKind(destType) = "slice" /\ TKind(srcType) = "slice" THEN "slice"
  ELSE IF TKind(destType) = "array" /\ TKind(srcType) = "array" /\ TLen(destType) = TLen(srcType)
    THEN "array"
  ELSE IF TKind(destType) = "map" /\ TKind(srcType) = "map" /\ Identical(TKey(destType), TKey(srcType))
    THEN "map"
  ELSE IF TKind(destType) = "ptr" /\ TKind(srcType) = "ptr"
          /\ isStructLike(TElem(destType)) /\ isStructLike(TElem(srcType))
    THEN IF usableProvider(registry, pairKey(TElem(srcType), TElem(destType)), currentMethod)
           THEN "ptrProvider" ELSE "ptrStruct"
  ELSE IF isStructLike(destType) /\ isStructLike(srcType) THEN "struct"
  ELSE "unsupported"

\* the registry consulted before the types are compared
strategyProviderFirst(registry, destType, srcType, currentMethod) ==
  IF usableProvider(registry, pairKey(srcType, destType), currentMethod) THEN "provider"
  ELSE IF Identical(destType, srcType) THEN "identical"
  ELSE IF AssignableTo(srcType, destType) THEN "assignable"
  ELSE structuralStrategy(registry, destType, srcType, currentMethod)

\* the branch of buildAssignmentNodes that returns, in the order of its tests
strategyOf(registry, destType, srcType, currentMethod) ==
  IF Identical(destType, srcType) THEN "identical"
  ELSE IF AssignableTo(srcType, destType) THEN "assignable"
  ELSE IF usableProvider(registry, pairKey(srcType, destType), currentMethod) THEN "provider"
  ELSE structuralStrategy(registry, destType, srcType, currentMethod)

\* loopErr: some child node has WithError
anyWithError(nodes) == \E i \in 1..Len(nodes) : nodes[i].WithError

RECURSIVE buildAssignmentNodes(_, _, _, _, _, _, _)
\* returns the emitted nodes and the generator with the helpers it reserved
buildAssignmentNodes(g, destExpr, srcExpr, destType, srcType, currentMethod, useCtx) ==
  LET one(n, g2) == [nodes |-> <<n>>, g |-> g2]
      \* st is the branch taken; mi the registry entry, child the nodes of
      \* the element mapping and h the reserved helper of the branches that
      \* use one
      emit(st, mi, child, h) ==
        CASE st = "identical" ->
               one([codeNode EXCEPT !.Kind = nodeKindAssignDirect, !.Dest = destExpr, !.Src = srcExpr], g)
          [] st = "assignable" ->
               one([codeNode EXCEPT !.Kind = nodeKindAssignCast, !.Dest = destExpr, !.Src = srcExpr,
                                    !.CastType = TypeString(destType)], g)
          [] st = "provider" ->
               one([codeNode EXCEPT !.Kind = IF mi.Kind = regKindCustomFunc THEN nodeKindAssignFunc
                                                                                ELSE nodeKindAssignMethod,
                                    !.Dest = destExpr, !.Method = mi.Name, !.Arg = srcExpr,
                                    !.WithError = mi.HasError, !.UseContext = useCtx], g)
          [] st \in {"slice", "map"} ->
               one([codeNode EXCEPT !.Kind = IF st = "slice" THEN nodeKindSliceMap ELSE nodeKindMapMap,
                                    !.Src = srcExpr, !.Dest = destExpr,
                                    !.DestType = TypeString(destType),
                                    !.ElemType = TypeString(IF st = "slice" THEN TElem(destType)
                                                                            ELSE TVal(destType)),
                                    !.Children = child.nodes,
                                    !.LoopWithError = anyWithError(child.nodes)], child.g)
          [] st = "array" ->
               one([codeNode EXCEPT !.Kind = nodeKindArrayMap, !.Src = srcExpr, !.Dest = destExpr,
                                    !.Children = child.nodes], child.g)
          [] st = "ptrProvider" ->
               one([codeNode EXCEPT !.Kind = IF mi.Kind = regKindCustomFunc THEN nodeKindPtrFuncMap
                                                                                ELSE nodeKindPtrMethodMap,
                                    !.Src = srcExpr, !.Dest = destExpr, !.Method = mi.Name,
                                    !.WithError = mi.HasError, !.UseContext = useCtx], g)
          [] st \in {"ptrStruct", "struct"} ->
               one([codeNode EXCEPT !.Kind = IF st = "ptrStruct" THEN nodeKindPtrStructMap
                                                                 ELSE nodeKindAssignHelper,
                                    !.Src = srcExpr, !.Dest = destExpr,
                                    !.Helper = h.name, !.UseContext = useCtx], h.g)
          [] OTHER ->
               one([codeNode EXCEPT !.Kind = nodeKindUnsupported, !.SrcType = TypeString(srcType),
                                    !.DestType = TypeString(destType)], g)
      resolve(st) ==
        emit(st,
             g.registry[IF st = "ptrProvider"
                          THEN TypeString(TElem(srcType)) \o "->" \o TypeString(TElem(destType))
                          ELSE TypeString(srcType) \o "->" \o TypeString(destType)],
             buildAssignmentNodes(g,
                                  IF st = "array" THEN destExpr \o "[i]" ELSE "mapped",
                                  IF st = "array" THEN srcExpr \o "[i]" ELSE "v",
                                  IF st = "map" THEN TVal(destType) ELSE TElem(destType),
                                  IF st = "map" THEN TVal(srcType) ELSE TElem(srcType),
                                  currentMethod, useCtx),
             ensureStructHelper(g, srcType, destType))
  IN resolve(strategyOf(g.registry, destType, srcType, currentMethod))

(***************************************************************************)
(* The field resolver of a helper (helperStructPlans).                     *)
(***************************************************************************)
\* index of the first exported field of struct s named name, 0 for nil
findMatchingSourceField(s, name) ==
  LET first(hits) == IF hits = {} THEN 0 ELSE CHOOSE i \in hits : \A j \in hits : i <= j
      among(fs) == first({i \in 1..Len(fs) : fs[i].exported /\ fs[i].name = name})
  IN among(StructFields(s))

\* the letters strings.EqualFold folds in the names of this package
lowerOf(c) ==
  CASE c = "A" -> "a" [] c = "B" -> "b" [] c = "C" -> "c" [] c = "D" -> "d" [] c = "E" -> "e"
    [] c = "F" -> "f" [] c = "G" -> "g" [] c = "H" -> "h" [] c = "I" -> "i" [] c = "J" -> "j"
    [] c = "K" -> "k" [] c = "L" -> "l" [] c = "M" -> "m" [] c = "N" -> "n" [] c = "O" -> "o"
    [] c = "P" -> "p" [] c = "Q" -> "q" [] c = "R" -> "r" [] c = "S" -> "s" [] c = "T" -> "t"
    [] c = "U" -> "u" [] c = "V" -> "v" [] c = "W" -> "w" [] c = "X" -> "x" [] c = "Y" -> "y"
    [] c = "Z" -> "z" [] OTHER -> c

upperOf(c) ==
  CASE c = "a" -> "A" [] c = "b" -> "B" [] c = "c" -> "C" [] c = "d" -> "D" [] c = "e" -> "E"
    [] c = "f" -> "F" [] c = "g" -> "G" [] c = "h" -> "H" [] c = "i" -> "I" [] c = "j" -> "J"
    [] c = "k" -> "K" [] c = "l" -> "L" [] c = "m" -> "M" [] c = "n" -> "N" [] c = "o" -> "O"
    [] c = "p" -> "P" [] c = "q" -> "Q" [] c = "r" -> "R" [] c = "s" -> "S" [] c = "t" -> "T"
    [] c = "u" -> "U" [] c = "v" -> "V" [] c = "w" -> "W" [] c = "x" -> "X" [] c = "y" -> "Y"
    [] c = "z" -> "Z" [] OTHER -> c

\* strings.EqualFold
EqualFold(a, b) ==
  /\ Len(a) = Len(b)
  /\ \A i \in 1..Len(a) : lowerOf(SubSeq(a, i, i)) = lowerOf(SubSeq(b, i, i))

\* index of the first exported field of s whose own `map` tag names destName
findTaggedSourceField(s, destName) ==
  LET first(hits) == IF hits = {} THEN 0 ELSE CHOOSE i \in hits : \A j \in hits : i <= j
      among(fs) == first({i \in 1..Len(fs) :
                            fs[i].exported /\ fs[i].map # "" /\ EqualFold(fs[i].map, destName)})
  IN among(StructFields(s))

RECURSIVE Split(_, _)
\* strings.Split(s, sep) for a one-character separator
Split(s, sep) ==
  LET cut(hits) ==
        IF hits = {} THEN <<s>>
        ELSE LET i == CHOOSE i \in hits : \A j \in hits : i <= j
             IN <<SubSeq(s, 1, i - 1)>> \o Split(SubSeq(s, i + 1, Len(s)), sep)
  IN cut({i \in 1..Len(s) : SubSeq(s, i, i) = sep})

\* the predeclared error type
ErrorT == NamedT("error")

isErrorType(t) == t = ErrorT

\* The package-level functions a package under generation may declare.
FuncNames == {"XToY", "XToYErr", "InnerToDTO", "ElemToElemDTO", "UserToDTO", "userToDTO", "Join"}

\* the signature of a package-level function: parameter and result types
FuncSig(name) ==
  CASE name = "XToY" -> [params |-> <<NamedT("X")>>, results |-> <<NamedT("Y")>>]
    [] name = "XToYErr" -> [params |-> <<NamedT("X")>>, results |-> <<NamedT("Y"), ErrorT>>]
    [] name = "InnerToDTO" -> [params |-> <<NamedT("Inner")>>, results |-> <<NamedT("InnerDTO"), ErrorT>>]
    [] name = "ElemToElemDTO" -> [params |-> <<NamedT("Elem")>>, results |-> <<NamedT("ElemDTO"), ErrorT>>]
    [] name = "UserToDTO" -> [params |-> <<NamedT("User")>>, results |-> <<NamedT("UserDTO")>>]
    [] name = "userToDTO" -> [params |-> <<NamedT("User")>>, results |-> <<NamedT("UserDTO")>>]
    [] name = "Join" -> [params |-> <<StringT, StringT>>, results |-> <<StringT>>]
    [] OTHER -> [params |-> <<>>, results |-> <<>>]

RECURSIVE walkPath(_, _, _)
\* the mapsrc walk: follow the exported fields named by parts from currType
walkPath(parts, currType, expr) ==
  LET step(s, fs, fj) ==
        IF fj = 0 THEN [ok |-> FALSE, type |-> currType, expr |-> expr]
        ELSE walkPath(Tail(parts), fs[fj].type, expr \o "." \o parts[1])
      from(s) == step(s, StructFields(s), IF s = NoStruct THEN 0 ELSE findMatchingSourceField(s, parts[1]))
  IN IF parts = <<>> THEN [ok |-> TRUE, type |-> currType, expr |-> expr]
     ELSE from(underlyingStruct(currType).s)

\* the source field helperStructPlans matches to destination field df by
\* name, then by the source fields' map tags, then by df's own map tag
\* (as written, then with its first letter capitalised); 0 for nil
matchSourceField(sStruct, df) ==
  LET capital == upperOf(SubSeq(df.map, 1, 1)) \o SubSeq(df.map, 2, Len(df.map))
      pick(byName, byTag, byDestTag, byCapital) ==
        IF byName # 0 THEN byName
        ELSE IF byTag # 0 THEN byTag
        ELSE IF df.map = "" THEN 0
        ELSE IF byDestTag # 0 THEN byDestTag
        ELSE byCapital
  IN pick(findMatchingSourceField(sStruct, df.name), findTaggedSourceField(sStruct, df.name),
          findMatchingSourceField(sStruct, df.map), findMatchingSourceField(sStruct, capital))

\* a function a mapfn tag may name: one parameter, one result or a result
\* and an error
validMapFn(scope, fn) ==
  LET ok(sig) == /\ Len(sig.params) = 1
                 /\ Len(sig.results) >= 1
                 /\ (Len(sig.results) = 1 \/ (Len(sig.results) = 2 /\ isErrorType(sig.results[2])))
  IN fn \in scope /\ ok(FuncSig(fn))

\* a same-name match taking precedence over the source path
pathUnlessNamed(sfi, df, walk) == sfi = 0 /\ df.mapsrc # "" /\ df.mapfn = "" /\ walk.ok

\* the mapsrc branch is taken: a source path without mapfn whose walk ended
\* (sfi, the name-matched source field, plays no part)
pathApplies(sfi, df, walk) == df.mapsrc # "" /\ df.mapfn = "" /\ walk.ok

\* the plan of one exported destination field; panic reports the nil
\* dereference of sf.Name() in the mapfn branch
fieldPlan(g, plan, scope, df) ==
  LET done(nodes) == [nodes |-> nodes, g |-> g, panic |-> FALSE]
      built(r) == [nodes |-> r.nodes, g |-> r.g, panic |-> FALSE]
      \* the node of a collection field converted element by element by mapfn
      loop(kind, sf, elemType, withErr) ==
        done(<<[codeNode EXCEPT !.Kind = kind, !.Src = "in." \o sf.name,
                                !.Dest = "dst." \o df.name, !.DestType = TypeString(df.type),
                                !.ElemType = TypeString(elemType),
                                !.Children = <<[codeNode EXCEPT !.Kind = nodeKindAssignFunc,
                                                                !.Dest = "mapped", !.Method = df.mapfn,
                                                                !.Arg = "v", !.WithError = withErr]>>,
                                !.LoopWithError = withErr]>>)
      \* sfi is the matched source field (0 for nil) and sf that field, path
      \* says that the mapsrc walk applies, direct is the type-directed
      \* assignment from the walked expression or from the matched field
      planOf(sfi, sf, path, withErr, direct) ==
        IF path THEN built(direct)
        ELSE IF sfi = 0 /\ df.mapfn = ""
          THEN done(<<[codeNode EXCEPT !.Kind = nodeKindComment,
                                       !.Comment = "no source field for " \o df.name]>>)
        ELSE IF df.mapfn # ""
          THEN IF ~validMapFn(scope, df.mapfn)
                 THEN done(<<[codeNode EXCEPT !.Kind = nodeKindComment,
                                              !.Comment = "mapfn not found or invalid: " \o df.mapfn]>>)
               ELSE IF sfi = 0 THEN [nodes |-> <<>>, g |-> g, panic |-> TRUE]
               ELSE IF TKind(df.type) \in {"slice", "map"}
                 THEN loop(IF TKind(df.type) = "slice" THEN nodeKindSliceMap ELSE nodeKindMapMap, sf,
                           IF TKind(df.type) = "slice" THEN TElem(df.type) ELSE TVal(df.type), withErr)
               ELSE done(<<[codeNode EXCEPT !.Kind = nodeKindAssignFunc, !.Dest = "dst." \o df.name,
                                            !.Method = df.mapfn, !.Arg = "in." \o sf.name,
                                            !.WithError = withErr]>>)
        ELSE built(direct)
      withWalk(sfi, sf, walk, path) ==
        planOf(sfi, sf, path, Len(FuncSig(df.mapfn).results) = 2,
               buildAssignmentNodes(g, "dst." \o df.name,
                                    IF path THEN walk.expr ELSE "in." \o sf.name,
                                    df.type, IF path THEN walk.type ELSE sf.type, "", FALSE))
      withField(sfi, fs, walk) ==
        withWalk(sfi, fs[sfi], walk, pathApplies(sfi, df, walk))
      withStruct(sStruct) ==
        withField(matchSourceField(sStruct, df), StructFields(sStruct),
                  walkPath(Split(df.mapsrc, "."), plan.SrcGoType, "in"))
  IN withStruct(underlyingStruct(plan.SrcGoType).s)

RECURSIVE structPlansFrom(_, _, _, _, _)
\* the field loop of helperStructPlans from destination field fi on;
\* count is the number of AssignmentPlans appended
structPlansFrom(g, plan, scope, fi, acc) ==
  LET add(df, r) ==
        structPlansFrom(g, plan, scope, fi + 1,
          [nodes |-> acc.nodes \o r.nodes, g |-> r.g, panic |-> r.panic,
           count |-> acc.count + 1,
           fields |-> acc.fields \o [i \in 1..Len(r.nodes) |-> df.name]])
      field(df) == add(df, fieldPlan(acc.g, plan, scope, df))
      over(fs) ==
        IF fi > Len(fs) \/ acc.panic THEN acc
        ELSE IF ~fs[fi].exported THEN structPlansFrom(g, plan, scope, fi + 1, acc)
        ELSE field(fs[fi])
  IN over(StructFields(underlyingStruct(plan.DestGoType).s))

\* helperStructPlans: isNil when it returns a nil slice; nodes are the plans'
\* nodes in order and fields the destination field each node belongs to
helperStructPlans(g, plan, scope) ==
  LET acc0 == [nodes |-> <<>>, g |-> g, panic |-> FALSE, count |-> 0, fields |-> <<>>]
      result(r) ==
        [isNil |-> r.count = 0, nodes |-> r.nodes, g |-> r.g, panic |-> r.panic, fields |-> r.fields]
      plans(src, dst, r) == result(IF src.s = NoStruct \/ dst.s = NoStruct THEN acc0 ELSE r)
  IN plans(underlyingStruct(plan.SrcGoType), underlyingStruct(plan.DestGoType),
           structPlansFrom(g, plan, scope, 1, acc0))

(***************************************************************************)
(* Discovery and interface planning.                                       *)
(***************************************************************************)
\* scope.Names(): the package-level function names in sorted order
FuncOrder == <<"ElemToElemDTO", "InnerToDTO", "Join", "UserToDTO", "XToY", "XToYErr", "userToDTO">>

\* token.IsExported
IsExported(name) == Len(name) > 0 /\ lowerOf(SubSeq(name, 1, 1)) # SubSeq(name, 1, 1)

RECURSIVE discoverFrom(_, _, _, _)
\* the loop of discoverCustomFuncs over scope.Names() from index i on
discoverFrom(registry, scope, i, res) ==
  LET keyed(name, hasErr, srcT, destT, skip) ==
        discoverFrom(registry, scope, i + 1,
          IF skip THEN res
          ELSE (customFuncKey(srcT, destT, hasErr) :> registryEntry(name, hasErr, regKindCustomFunc))
                 @@ res)
      typed(name, sig, srcT, destT) ==
        keyed(name, Len(sig.results) = 2, srcT, destT,
              \/ name \notin scope
              \/ ~IsExported(name)
              \/ Len(sig.params) # 1
              \/ Len(sig.results) < 1 \/ Len(sig.results) > 2
              \/ (Len(sig.results) = 2 /\ ~isErrorType(sig.results[2]))
              \/ (srcT \o "->" \o destT) \in DOMAIN registry)
      declared(name, sig) == typed(name, sig, TypeString(sig.params[1]), TypeString(sig.results[1]))
  IN IF i > Len(FuncOrder) THEN res ELSE declared(FuncOrder[i], FuncSig(FuncOrder[i]))

discoverCustomFuncs(g, scope) == discoverFrom(g.registry, scope, 1, EmptyMap)

\* strings.TrimSuffix(k, "#err")
trimErrSuffix(k) ==
  IF Len(k) >= 4 /\ SubSeq(k, Len(k) - 3, Len(k)) = "#err" THEN SubSeq(k, 1, Len(k) - 4) ELSE k

\* run's merge of the discovered functions into the registry.  The base key
\* of an entry without error is the key itself, so the order in which the
\* map is ranged over does not change the result.
mergeFuncs(g, funcMap) ==
  LET backfill == {trimErrSuffix(k) : k \in {k \in DOMAIN funcMap : ~funcMap[k].HasError}}
      name(b) == funcMap[CHOOSE k \in DOMAIN funcMap : ~funcMap[k].HasError /\ trimErrSuffix(k) = b].Name
      filled == [b \in backfill \ (DOMAIN funcMap \cup DOMAIN g.registry) |->
                   registryEntry(name(b), FALSE, regKindCustomFunc)]
  IN [g EXCEPT !.registry = filled @@ funcMap @@ @, !.helperNames = EmptyMap, !.helperModels = <<>>]

findCustomVariant(registry, base) ==
  \/ (base \in DOMAIN registry /\ registry[base].Kind = regKindCustomFunc)
  \/ ((base \o "#err") \in DOMAIN registry /\ registry[base \o "#err"].Kind = regKindCustomFunc)

\* context.Context
CtxT == NamedT("context.Context")

\* an interface method: name, parameters (name and type), result types
Method(name, params, results) == [Name |-> name, Params |-> params, Results |-> results]
Param(name, type) == [Name |-> name, Type |-> type]

lowerFirst(s) == IF s = "" THEN s ELSE lowerOf(SubSeq(s, 1, 1)) \o SubSeq(s, 2, Len(s))

\* first element of a non-empty set of integers
MinOf(S) == CHOOSE i \in S : \A j \in S : i <= j

\* the validation of a method signature; "" when it is accepted
methodError(m) ==
  LET primary == {i \in 1..Len(m.Params) :
                    /\ m.Params[i].Type # CtxT
                    /\ (underlyingStruct(m.Params[i].Type).s # NoStruct \/ isCollectionLike(m.Params[i].Type))}
      kinds(srcType, destType, src, dst) ==
        IF ~(src.s # NoStruct /\ dst.s # NoStruct)
             /\ ~(isCollectionLike(srcType) /\ isCollectionLike(destType))
          THEN "method " \o m.Name \o ": unsupported top-level mapping (" \o TypeString(srcType)
                 \o " -> " \o TypeString(destType) \o ")"
        ELSE ""
      mapped(srcType, destType) ==
        kinds(srcType, destType, underlyingStruct(srcType), underlyingStruct(destType))
      from(prim) ==
        IF prim = {} THEN "method " \o m.Name \o ": no struct or collection parameter to map from"
        ELSE mapped(m.Params[MinOf(prim)].Type, m.Results[1])
  IN IF Len(m.Params) < 1 THEN "method " \o m.Name \o ": must have at least one parameter"
     ELSE IF Len(m.Results) < 1 \/ Len(m.Results) > 2
       THEN "method " \o m.Name \o ": must have 1 or 2 results"
     ELSE IF Len(m.Results) = 2 /\ ~isErrorType(m.Results[2])
       THEN "method " \o m.Name \o ": second result must be error"
     ELSE from(primary)

\* the parameter name the generated method uses: p<i> for an unnamed one
paramName(m, i) == IF m.Params[i].Name = "" THEN "p" \o ToString(i - 1) ELSE m.Params[i].Name

\* the method registered as the provider of its pair (first parameter to
\* first result) unless the registry holds one already
registerMethod(g, m) ==
  LET keyed(key) ==
        IF key \notin DOMAIN g.registry /\ ~findCustomVariant(g.registry, key)
          THEN [g EXCEPT !.registry =
                  (key :> registryEntry(m.Name, Len(m.Results) = 2, regKindInterfaceMethod)) @@ @]
        ELSE g
  IN keyed(TypeString(m.Params[1].Type) \o "->" \o TypeString(m.Results[1]))

\* one iteration of buildInterfaceModel's method loop, for an accepted
\* method: register it, classify it, reserve its helper, record its plan
planMethod(g, implName, m) ==
  LET ctxSet == {i \in 1..Len(m.Params) : m.Params[i].Type = CtxT}
      \* ctxIdx is overwritten by every context parameter: the last one stays
      lastCtx(s) == IF s = {} THEN 0 ELSE CHOOSE i \in s : \A j \in s : j <= i
      planned(g3, primaryIdx, structMap, composite) ==
        [g |-> g3,
         plan |-> [Name |-> m.Name, Signature |-> m,
                   Params |-> [i \in 1..Len(m.Params) |->
                                 [Name |-> paramName(m, i), Type |-> TypeString(m.Params[i].Type)]],
                   PrimaryIndex |-> primaryIdx, CtxIndex |-> lastCtx(ctxSet),
                   HasError |-> Len(m.Results) = 2,
                   StructMapping |-> structMap, CompositeMapping |-> composite, ImplName |-> implName]]
      reserved(g2, primaryIdx, srcType, destType, structMap, composite) ==
        planned(IF composite THEN ensureCompositeHelper(g2, srcType, destType).g ELSE g2,
                primaryIdx, structMap, composite)
      classified(g1, primaryIdx, srcType, destType, structMap, composite) ==
        reserved(IF structMap /\ Len(m.Params) = 1 THEN ensureStructHelper(g1, srcType, destType).g ELSE g1,
                 primaryIdx, srcType, destType, structMap, composite)
      typed(g1, primaryIdx, srcType, destType) ==
        classified(g1, primaryIdx, srcType, destType,
                   underlyingStruct(srcType).s # NoStruct /\ underlyingStruct(destType).s # NoStruct,
                   isCollectionLike(srcType) /\ isCollectionLike(destType))
      registered(g1, primaryIdx) == typed(g1, primaryIdx, m.Params[primaryIdx].Type, m.Results[1])
  IN registered(registerMethod(g, m),
                MinOf({i \in 1..Len(m.Params) :
                         /\ m.Params[i].Type # CtxT
                         /\ (underlyingStruct(m.Params[i].Type).s # NoStruct
                             \/ isCollectionLike(m.Params[i].Type))}))

RECURSIVE buildInterfaceSkipping(_, _, _, _, _)
\* the loop that leaves a rejected method out and goes on
buildInterfaceSkipping(g, implName, methods, i, plans) ==
  LET next(r) == buildInterfaceSkipping(r.g, implName, methods, i + 1, Append(plans, r.plan))
      checked(e, r) ==
        IF e # "" THEN buildInterfaceSkipping(g, implName, methods, i + 1, plans) ELSE next(r)
  IN IF i > Len(methods) THEN [g |-> g, plans |-> plans, err |-> ""]
     ELSE checked(methodError(methods[i]), planMethod(g, implName, methods[i]))

RECURSIVE buildInterfaceFrom(_, _, _, _, _)
\* buildInterfaceModel's loop from method i on; err is "" unless a method
\* was rejected, and then the plans are dropped.  A method rejected for its
\* parameter or result kinds has been registered by then.
buildInterfaceFrom(g, implName, methods, i, plans) ==
  LET next(r) == buildInterfaceFrom(r.g, implName, methods, i + 1, Append(plans, r.plan))
      shaped(m) == /\ Len(m.Params) >= 1
                   /\ Len(m.Results) \in {1, 2}
                   /\ (Len(m.Results) = 2 => isErrorType(m.Results[2]))
      checked(e, r) ==
        IF e # "" THEN [g |-> IF shaped(methods[i]) THEN registerMethod(g, methods[i]) ELSE g,
                        plans |-> <<>>, err |-> e]
        ELSE next(r)
  IN IF i > Len(methods) THEN [g |-> g, plans |-> plans, err |-> ""]
     ELSE checked(methodError(methods[i]), planMethod(g, implName, methods[i]))

buildInterfaceModel(g, name, methods) ==
  LET result(implName, r) ==
        [g |-> r.g, plans |-> r.plans, err |-> r.err,
         model |-> [Name |-> name, ImplName |-> implName, Methods |-> <<>>]]
      impl(implName) == result(implName, buildInterfaceFrom(g, implName, methods, 1, <<>>))
  IN impl(lowerFirst(name) \o "Impl")

(***************************************************************************)
(* The populate pass.                                                      *)
(***************************************************************************)
\* plan.Populated = true through the pointer taken at the top of the loop
\* body: the write reaches g.helperPlans only if no append moved the backing
\* array since the pointer was taken.
markPopulated(g, i) ==
  IF g.realloc THEN g ELSE [g EXCEPT !.helperPlans[i].Populated = TRUE]

\* the helperModel that forgets that the source is a pointer
planModelValueSrc(plan, body, hasError) ==
  [helperModel EXCEPT !.Name = plan.Name, !.SrcType = TypeString(plan.SrcGoType),
                      !.DestType = TypeString(plan.DestGoType), !.SrcIsPtr = FALSE,
                      !.DestIsPtr = plan.DestIsPtr, !.UnderDestType = plan.UnderDestType,
                      !.ZeroReturn = plan.ZeroReturn, !.Body = body, !.HasError = hasError]

\* the helperModel of a plan with the given body and fallibility
planModel(plan, body, hasError) ==
  [helperModel EXCEPT !.Name = plan.Name, !.SrcType = TypeString(plan.SrcGoType),
                      !.DestType = TypeString(plan.DestGoType), !.SrcIsPtr = plan.SrcIsPtr,
                      !.DestIsPtr = plan.DestIsPtr, !.UnderDestType = plan.UnderDestType,
                      !.ZeroReturn = plan.ZeroReturn, !.Body = body, !.HasError = hasError]

\* one iteration of populateHelpers' loop, for plan i
populateHelper(g, scope, i) ==
  LET add(g1, hm) == markPopulated([g1 EXCEPT !.helperModels = Append(@, hm)], i)
      \* comp is the body of a composite helper, sp the field plans of a
      \* record helper
      body(g0, plan, comp, sp) ==
        IF plan.Populated THEN [g |-> g0, panic |-> FALSE]
        ELSE IF plan.Composite
          THEN [g |-> add(comp.g, planModel(plan, comp.nodes, FALSE)), panic |-> FALSE]
        ELSE IF plan.CustomFuncName # ""
          THEN [g |-> add(g0, planModel(plan,
                                <<[codeNode EXCEPT !.Kind = nodeKindAssignFunc, !.Dest = "dst",
                                                   !.Method = plan.CustomFuncName, !.Arg = "in",
                                                   !.WithError = plan.CustomFuncHasError]>>,
                                plan.CustomFuncHasError)),
                panic |-> FALSE]
        ELSE IF sp.panic THEN [g |-> sp.g, panic |-> TRUE]
        ELSE IF sp.isNil THEN [g |-> markPopulated(sp.g, i), panic |-> FALSE]
        ELSE [g |-> add(sp.g, planModel(plan, sp.nodes, anyWithError(sp.nodes))), panic |-> FALSE]
      iter(g0, plan) ==
        body(g0, plan,
             buildAssignmentNodes(g0, "dst", "in", plan.DestGoType, plan.SrcGoType, "", FALSE),
             helperStructPlans(g0, plan, scope))
  IN iter([g EXCEPT !.realloc = FALSE], g.helperPlans[i])

(***************************************************************************)
(* Method bodies.                                                          *)
(***************************************************************************)
\* the body of a method that delegates to its helper
delegateBody(name, primaryName, hasError) ==
  <<[codeNode EXCEPT !.Kind = nodeKindReturn, !.Expr = name \o "(" \o primaryName \o ")",
                     !.WithError = hasError]>>

\* fmt.Sscanf(s, "%d", &idx): an optional sign, then the leading decimal
\* digits of s; what follows them is left unread.  ok is err == nil.
scanInt(s) ==
  LET digit(c) == CASE c = "0" -> 0 [] c = "1" -> 1 [] c = "2" -> 2 [] c = "3" -> 3 [] c = "4" -> 4
                    [] c = "5" -> 5 [] c = "6" -> 6 [] c = "7" -> 7 [] c = "8" -> 8 [] c = "9" -> 9
                    [] OTHER -> -1
      RECURSIVE digits(_, _, _)
      digits(t, i, acc) ==
        IF i > Len(t) \/ digit(SubSeq(t, i, i)) < 0 THEN [ok |-> i > 1, val |-> acc]
        ELSE digits(t, i + 1, 10 * acc + digit(SubSeq(t, i, i)))
      signed(neg, r) == [ok |-> r.ok, val |-> IF neg THEN 0 - r.val ELSE r.val]
      sign(c) == signed(c = "-", digits(IF c \in {"+", "-"} THEN SubSeq(s, 2, Len(s)) ELSE s, 1, 0))
  IN sign(SubSeq(s, 1, 1))

\* the indices of a method plan's parameters other than the context
nonCtx(mp) == SelectSeq([i \in 1..Len(mp.Params) |-> i], LAMBDA i : i # mp.CtxIndex)

\* the parameter of that name tried before the position
srcParamByName(mp, paramToken) ==
  LET byName == IF \E i \in 1..Len(mp.Params) : mp.Params[i].Name = paramToken THEN paramToken ELSE ""
      at(rest, idx) == IF idx.ok /\ idx.val >= 0 /\ idx.val < Len(rest)
                         THEN mp.Params[rest[idx.val + 1]].Name ELSE ""
      byIndex(idxStr) == IF idxStr = "" THEN "" ELSE at(nonCtx(mp), scanInt(idxStr))
  IN IF byName # "" THEN byName
     ELSE IF SubSeq(paramToken, 1, 1) = "p" THEN byIndex(SubSeq(paramToken, 2, Len(paramToken)))
     ELSE ""

\* the parameter the first token of a mapsrc path names in a method of
\* several parameters: "p<N>" is the N-th non-context parameter; failing
\* that, the parameter of that name; "" when there is none
srcParamOf(mp, paramToken) ==
  LET byName == IF \E i \in 1..Len(mp.Params) : mp.Params[i].Name = paramToken THEN paramToken ELSE ""
      at(rest, idx) == IF idx.ok /\ idx.val >= 0 /\ idx.val < Len(rest)
                         THEN mp.Params[rest[idx.val + 1]].Name ELSE ""
      byIndex(idxStr) == IF idxStr = "" THEN "" ELSE at(nonCtx(mp), scanInt(idxStr))
      chosen(pos) == IF pos # "" THEN pos ELSE byName
  IN chosen(IF SubSeq(paramToken, 1, 1) = "p" THEN byIndex(SubSeq(paramToken, 2, Len(paramToken)))
                                                ELSE "")

\* paramStructs and paramPtrs: the record behind each non-context parameter
\* ("" for none) and whether the parameter is a pointer to it
paramStruct(mp, pname) ==
  LET of(hits) == IF hits = {} THEN [s |-> NoStruct, isPtr |-> FALSE]
                  ELSE underlyingStruct(mp.Signature.Params[CHOOSE i \in hits : \A j \in hits : j <= i].Type)
  IN of({i \in 1..Len(mp.Params) : i # mp.CtxIndex /\ mp.Params[i].Name = pname
                                     /\ underlyingStruct(mp.Signature.Params[i].Type).s # NoStruct})

\* the last such parameter instead of the first
otherParamLast(mp, srcParamName, fname) ==
  LET last(hits) == IF hits = {} THEN [p |-> 0, f |-> 0]
                    ELSE LET i == CHOOSE i \in hits : \A j \in hits : j <= i
                         IN [p |-> i, f |-> findMatchingSourceField(paramStruct(mp, mp.Params[i].Name).s, fname)]
  IN last({i \in 1..Len(mp.Params) :
             /\ mp.Params[i].Name # srcParamName
             /\ paramStruct(mp, mp.Params[i].Name).s # NoStruct
             /\ findMatchingSourceField(paramStruct(mp, mp.Params[i].Name).s, fname) # 0})

\* the first parameter other than srcParamName with an exported field named
\* fname, in declaration order: its index and the field's index, 0 for none
otherParamField(mp, srcParamName, fname) ==
  LET first(hits) == IF hits = {} THEN [p |-> 0, f |-> 0]
                     ELSE [p |-> MinOf(hits),
                           f |-> findMatchingSourceField(paramStruct(mp, mp.Params[MinOf(hits)].Name).s, fname)]
  IN first({i \in 1..Len(mp.Params) :
              /\ mp.Params[i].Name # srcParamName
              /\ paramStruct(mp, mp.Params[i].Name).s # NoStruct
              /\ findMatchingSourceField(paramStruct(mp, mp.Params[i].Name).s, fname) # 0})

\* the first non-context parameter whose type is identical to t, 0 for none
wholeTypeParam(mp, t) ==
  LET first(hits) == IF hits = {} THEN 0 ELSE MinOf(hits)
  IN first({i \in 1..Len(mp.Params) : i # mp.CtxIndex /\ Identical(mp.Signature.Params[i].Type, t)})

\* the plan of one exported destination field of a method of several
\* parameters
methodFieldPlan(g, mp, destPtr, df) ==
  LET dest == prefixDest(destPtr) \o df.name
      useCtx == mp.CtxIndex # 0
      done(n) == [nodes |-> <<n>>, g |-> g]
      comment(text) == done([codeNode EXCEPT !.Kind = nodeKindComment, !.Comment = text \o df.name])
      fromField(pname, isPtr, f) ==
        buildAssignmentNodes(g, dest, prefixSrc(pname, isPtr) \o f.name, df.type, f.type, mp.Name, useCtx)
      \* no field named srcFieldName in the chosen parameter: o is the field
      \* of another parameter, w the parameter of the field's own type
      fallback(o, w) ==
        IF o.p # 0
          THEN fromField(mp.Params[o.p].Name, paramStruct(mp, mp.Params[o.p].Name).isPtr,
                         StructFields(paramStruct(mp, mp.Params[o.p].Name).s)[o.f])
        ELSE IF w # 0
          THEN done([codeNode EXCEPT !.Kind = nodeKindAssignDirect, !.Dest = dest, !.Src = mp.Params[w].Name])
        ELSE comment("no source for ")
      lookup(srcParamName, ps, sfi) ==
        IF ps.s = NoStruct THEN comment("no struct param for ")
        ELSE IF sfi = 0
          THEN fallback(otherParamField(mp, srcParamName, df.name), wholeTypeParam(mp, df.type))
        ELSE fromField(srcParamName, ps.isPtr, StructFields(ps.s)[sfi])
      byName(srcParamName, srcFieldName) ==
        lookup(srcParamName, paramStruct(mp, srcParamName),
               IF paramStruct(mp, srcParamName).s = NoStruct THEN 0
               ELSE findMatchingSourceField(paramStruct(mp, srcParamName).s, srcFieldName))
      \* pi is the index of the parameter the path starts from, walk the
      \* walk of the rest of the path from its type
      pathed(srcParamName, pathParts, pi, walk) ==
        IF pathParts # <<>> /\ pi # 0 /\ walk.ok
          THEN buildAssignmentNodes(g, dest, walk.expr, df.type, walk.type, mp.Name, useCtx)
        ELSE byName(IF srcParamName = "" THEN mp.Params[mp.PrimaryIndex].Name ELSE srcParamName,
                    IF Len(pathParts) = 1 THEN pathParts[1] ELSE df.name)
      started(srcParamName, pathParts, hits) ==
        pathed(srcParamName, pathParts, IF hits = {} THEN 0 ELSE MinOf(hits),
               IF hits = {} THEN [ok |-> FALSE]
               ELSE walkPath(pathParts, mp.Signature.Params[MinOf(hits)].Type, srcParamName))
      tagged(parts, srcParamName) ==
        started(srcParamName, Tail(parts),
                {i \in 1..Len(mp.Params) : mp.Params[i].Name = srcParamName})
  IN IF df.mapsrc # "" THEN tagged(Split(df.mapsrc, "."), srcParamOf(mp, Split(df.mapsrc, ".")[1]))
     ELSE byName(mp.Params[mp.PrimaryIndex].Name, df.name)

RECURSIVE methodPlansFrom(_, _, _, _, _)
\* the field loop of methodStructPlans from destination field fi on
methodPlansFrom(g, mp, destPtr, fi, nodes) ==
  LET add(r) == methodPlansFrom(r.g, mp, destPtr, fi + 1, nodes \o r.nodes)
      over(fs) ==
        IF fi > Len(fs) THEN [g |-> g, nodes |-> nodes]
        ELSE IF ~fs[fi].exported THEN methodPlansFrom(g, mp, destPtr, fi + 1, nodes)
        ELSE add(methodFieldPlan(g, mp, destPtr, fs[fi]))
  IN over(StructFields(underlyingStruct(mp.Signature.Results[1]).s))

methodStructPlans(g, mp, destPtr) == methodPlansFrom(g, mp, destPtr, 1, <<>>)

\* the orders in which a range over a map with these keys can visit them
iterationOrders(keys) ==
  {o \in [1..Cardinality(keys) -> keys] : \A i, j \in 1..Cardinality(keys) : o[i] = o[j] => i = j}

\* the keys of paramPtrs that yield a guard, over the methods planned for an
\* interface: the names of the parameters that are pointers to records
paramNames(plans) ==
  UNION {{plans[i].Params[k].Name : k \in {n \in 1..Len(plans[i].Params) : paramStruct(plans[i], plans[i].Params[n].Name).isPtr}} :
           i \in 1..Len(plans)}

\* the methodModel of a planned method; ord is the order in which the range
\* over paramPtrs visits the parameter names
buildMethodModel(g, mp, ord) ==
  LET primaryName == mp.Params[mp.PrimaryIndex].Name
      \* the signature checked once more
      failure ==
        IF Len(mp.Signature.Params) < 1 THEN "method must have at least one parameter"
        ELSE IF Len(mp.Signature.Results) \notin {1, 2} THEN "method must have 1 or 2 results"
        ELSE IF Len(mp.Signature.Results) = 2 /\ ~isErrorType(mp.Signature.Results[2])
          THEN "second result must be error"
        ELSE IF ~mp.StructMapping /\ ~mp.CompositeMapping THEN "unsupported top-level mapping"
        ELSE ""
      model(g1, body) ==
        [g |-> g1, err |-> failure,
         model |-> [Name |-> mp.Name, Params |-> mp.Params, PrimaryParam |-> primaryName,
                    DestType |-> TypeString(mp.Signature.Results[1]), HasError |-> mp.HasError,
                    Body |-> body, HasContext |-> mp.CtxIndex # 0]]
      delegate(h) == model(h.g, delegateBody(h.name, primaryName, mp.HasError))
      guard(pn) == [codeNode EXCEPT !.Kind = nodeKindIfNilReturn, !.Var = pn,
                                    !.Zero = zeroValue(mp.Signature.Results[1]), !.WithError = mp.HasError]
      guards(names) == [k \in 1..Len(names) |-> guard(names[k])]
      inline(destPtr, r) ==
        model(r.g,
              guards(SelectSeq(ord, LAMBDA pn : paramStruct(mp, pn).isPtr))
                \o <<[codeNode EXCEPT !.Kind = nodeKindDestInit,
                                      !.Var = IF destPtr THEN "mapped" ELSE "dst",
                                      !.DestType = TypeString(mp.Signature.Results[1])]>>
                \o r.nodes
                \o <<[codeNode EXCEPT !.Kind = nodeKindReturn, !.Expr = IF destPtr THEN "&mapped" ELSE "dst",
                                      !.WithError = mp.HasError]>>)
      several(destPtr) == inline(destPtr, methodStructPlans(g, mp, destPtr))
      typed(srcType, destType) ==
        IF mp.StructMapping /\ Len(mp.Params) # 1 THEN several(underlyingStruct(destType).isPtr)
        ELSE delegate(IF mp.StructMapping THEN ensureStructHelper(g, srcType, destType)
                                          ELSE ensureCompositeHelper(g, srcType, destType))
  IN typed(mp.Signature.Params[mp.PrimaryIndex].Type, mp.Signature.Results[1])

RECURSIVE populateMethodsFrom(_, _, _, _, _)
\* the bodies of an interface's methods, in plan order
populateMethodsFrom(g, plans, i, models, ord) ==
  LET next(r) == IF r.err # "" THEN [g |-> r.g, models |-> models, err |-> r.err]
                 ELSE populateMethodsFrom(r.g, plans, i + 1, Append(models, r.model), ord)
  IN IF i > Len(plans) THEN [g |-> g, models |-> models, err |-> ""]
     ELSE next(buildMethodModel(g, plans[i], ord))

populateMethods(g, plans, ord) == populateMethodsFrom(g, plans, 1, <<>>, ord)

(***************************************************************************)
(* De-duplication and the error-propagation analysis.                      *)
(***************************************************************************)
RECURSIVE dedupFrom(_, _, _, _)
\* run's de-duplication of helper models by name, keeping the first
dedupFrom(models, i, seen, uniq) ==
  IF i > Len(models) THEN uniq
  ELSE IF models[i].Name \in seen THEN dedupFrom(models, i + 1, seen, uniq)
  ELSE dedupFrom(models, i + 1, seen \cup {models[i].Name}, Append(uniq, models[i]))


\* run without its de-duplication: every populated model is emitted
keepAllHelpers(models) == models

dedupHelpers(models) == dedupFrom(models, 1, {}, <<>>)

\* index[name] of computeHelperErrors: the last model of that name, 0 for nil
helperIndex(models, name) ==
  LET last(hits) == IF hits = {} THEN 0 ELSE CHOOSE i \in hits : \A j \in hits : j <= i
  IN last({i \in 1..Len(models) : models[i].Name = name})

RECURSIVE matchesErrNode(_, _)
matchesErrNode(models, n) ==
  LET fallible(hi) == hi # 0 /\ models[hi].HasError
  IN IF n.Kind \in {nodeKindAssignMethod, nodeKindPtrMethodMap} THEN n.WithError
     ELSE \/ (n.Kind \in {nodeKindAssignHelper, nodeKindPtrStructMap}
              /\ fallible(helperIndex(models, n.Helper)))
          \/ n.WithError
          \/ \E c \in 1..Len(n.Children) : matchesErrNode(models, n.Children[c])

marksHelper(models, h) == \E k \in 1..Len(h.Body) : matchesErrNode(models, h.Body[k])

RECURSIVE errorPassFrom(_, _, _)
\* one sweep of computeHelperErrors' inner loop, from helper i on
errorPassFrom(models, i, changed) ==
  IF i > Len(models) THEN [models |-> models, changed |-> changed]
  ELSE IF ~models[i].HasError /\ marksHelper(models, models[i])
    THEN errorPassFrom([models EXCEPT ![i].HasError = TRUE], i + 1, TRUE)
  ELSE errorPassFrom(models, i + 1, changed)


\* computeHelperErrors with a single sweep instead of the `for changed` loop
errorSinglePass(models) == errorPassFrom(models, 1, FALSE).models

RECURSIVE errorFixedPoint(_)
\* the `for changed` loop: sweep until a sweep changes nothing
errorFixedPoint(models) ==
  LET again(r) == IF r.changed THEN errorFixedPoint(r.models) ELSE r.models
  IN again(errorPassFrom(models, 1, FALSE))

\* computeHelperErrors: the marked models and the returned name set
computeHelperErrors(models) ==
  LET result(marked) ==
        [models |-> marked,
         helperErr |-> {marked[i].Name : i \in {j \in 1..Len(marked) : marked[j].HasError}}]
  IN result(errorFixedPoint(models))

\* strings.Index(s, "("), counted from 0; -1 when absent
indexOfParen(s) ==
  LET first(hits) == IF hits = {} THEN -1 ELSE MinOf(hits) - 1
  IN first({i \in 1..Len(s) : SubSeq(s, i, i) = "("})

\* the helper a Return expression calls, "" when it is not a call
returnCallee(expr) ==
  LET upTo(i) == IF i > 0 THEN SubSeq(expr, 1, i) ELSE ""
  IN upTo(indexOfParen(expr))

\* annotateNode that stops at the node it is given and leaves the children
\* of a loop as they were built
annotateNodeShallow(n, helperErr) ==
  IF n.Kind \in {nodeKindAssignHelper, nodeKindPtrStructMap} /\ n.Helper \in helperErr
    THEN [n EXCEPT !.WithError = TRUE]
  ELSE IF n.Kind = nodeKindReturn /\ n.Expr # "" /\ returnCallee(n.Expr) # ""
          /\ returnCallee(n.Expr) \in helperErr
    THEN [n EXCEPT !.WithError = FALSE]
  ELSE n

RECURSIVE annotateNode(_, _)
annotateNode(n, helperErr) ==
  LET n1 == IF n.Kind \in {nodeKindAssignHelper, nodeKindPtrStructMap} /\ n.Helper \in helperErr
              THEN [n EXCEPT !.WithError = TRUE]
            ELSE IF n.Kind = nodeKindReturn /\ n.Expr # "" /\ returnCallee(n.Expr) # ""
                    /\ returnCallee(n.Expr) \in helperErr
              THEN [n EXCEPT !.WithError = FALSE]
            ELSE n
  IN [n1 EXCEPT !.Children = [c \in 1..Len(n.Children) |-> annotateNode(n.Children[c], helperErr)]]

annotateBody(body, helperErr) == [k \in 1..Len(body) |-> annotateNode(body[k], helperErr)]

\* annotateHelperErrorUsage on the helper models
annotateHelpers(models, helperErr) ==
  [i \in 1..Len(models) |-> [models[i] EXCEPT !.Body = annotateBody(@, helperErr)]]

\* annotateHelperErrorUsage on the interface models
annotateInterfaces(interfaces, helperErr) ==
  [i \in 1..Len(interfaces) |->
     [interfaces[i] EXCEPT !.Methods =
        [k \in 1..Len(interfaces[i].Methods) |->
           [interfaces[i].Methods[k] EXCEPT !.Body = annotateBody(@, helperErr)]]]]

\* needCtx: some method of some interface takes a context
needContext(interfaces) ==
  \E i \in 1..Len(interfaces) : \E k \in 1..Len(interfaces[i].Methods) :
     interfaces[i].Methods[k].HasContext

(***************************************************************************)
(* The mapper interfaces a package under generation may declare; the       *)
(* methods of an interface are listed in the order of iface.Method(i),     *)
(* which is sorted by name.                                                *)
(***************************************************************************)
\* the interface names in the order sort.Strings gives them
IfaceOrder ==
  <<"AliasMapper", "ChainMapper", "ColMapper", "Composer", "GraphMapper", "HiddenMapper", "ListMapper", "LooseMapper",
    "ManyResultsMapper", "Mapper", "MapsrcMapper", "MixedMapper", "NoParamsMapper",
    "NoResultsMapper", "NoSourceMapper", "QuietMapper", "RecMapper", "SecondResultMapper",
    "TeamMapper", "TopMapper", "UserMapper">>

IfaceNames == {IfaceOrder[i] : i \in 1..Len(IfaceOrder)}

\* interfaces with a method buildInterfaceModel rejects, between two methods
\* it accepts
Malformed ==
  {"NoParamsMapper", "NoResultsMapper", "ManyResultsMapper", "SecondResultMapper", "NoSourceMapper",
   "MixedMapper"}

MalformedMethod(name) ==
  CASE name = "NoParamsMapper" -> Method("Beta", <<>>, <<NamedT("Y")>>)
    [] name = "NoResultsMapper" -> Method("Beta", <<Param("a", NamedT("X"))>>, <<>>)
    [] name = "ManyResultsMapper" ->
         Method("Beta", <<Param("a", NamedT("X"))>>, <<NamedT("Y"), NamedT("Y"), ErrorT>>)
    [] name = "SecondResultMapper" -> Method("Beta", <<Param("a", NamedT("X"))>>, <<NamedT("Y"), IntT>>)
    [] name = "NoSourceMapper" -> Method("Beta", <<Param("n", IntT)>>, <<NamedT("Y")>>)
    [] name = "MixedMapper" -> Method("Beta", <<Param("a", NamedT("X"))>>, <<SliceT(NamedT("Y"))>>)

IfaceMethods(name) ==
  CASE name = "AliasMapper" ->
         <<Method("FromAlias", <<Param("p", NamedT("Ptr_User"))>>, <<NamedT("UserDTO")>>)>>
    [] name = "ChainMapper" ->
         <<Method("Chain", <<Param("n", NamedT("Node")), Param("x", NamedT("Extra"))>>, <<NamedT("NodeDTO")>>)>>
    [] name = "ColMapper" ->
         <<Method("ConvertMap", <<Param("s", NamedT("MapContainer"))>>, <<NamedT("MapContainerDTO"), ErrorT>>),
           Method("ConvertSlice", <<Param("s", NamedT("SliceContainer"))>>, <<NamedT("SliceContainerDTO"), ErrorT>>)>>
    [] name = "GraphMapper" ->
         <<Method("MapN", <<Param("n", NamedT("N"))>>, <<NamedT("ND")>>),
           Method("MapP", <<Param("p", NamedT("P"))>>, <<NamedT("PD")>>)>>
    [] name = "HiddenMapper" ->
         <<Method("MapHidden", <<Param("h", NamedT("Hidden"))>>, <<NamedT("HiddenDTO")>>)>>
    [] name = "Composer" ->
         <<Method("Assemble", <<Param("c", NamedT("Core")), Param("m", NamedT("Meta")), Param("x", NamedT("Extra"))>>,
                  <<NamedT("Combined")>>),
           Method("ComposeIdx", <<Param("", NamedT("PartA")), Param("", NamedT("PartB"))>>, <<NamedT("OutIdx")>>),
           Method("ComposeIdxContext", <<Param("", CtxT), Param("", NamedT("PartA")), Param("", NamedT("PartB"))>>,
                  <<NamedT("OutIdx")>>),
           Method("ComposeNamed", <<Param("p1", NamedT("PartA")), Param("p0", NamedT("PartB"))>>, <<NamedT("OutIdx")>>),
           Method("Merge", <<Param("a", PtrT(NamedT("User"))), Param("b", PtrT(NamedT("User")))>>,
                  <<PtrT(NamedT("UserDTO"))>>)>>
    [] name = "ListMapper" ->
         <<Method("MapList", <<Param("xs", SliceT(NamedT("Inner")))>>, <<SliceT(NamedT("InnerDTO")), ErrorT>>),
           Method("MapUsers", <<Param("us", SliceT(PtrT(NamedT("User"))))>>, <<SliceT(PtrT(NamedT("UserDTO")))>>)>>
    [] name = "LooseMapper" ->
         <<Method("MapDual", <<Param("d", NamedT("Dual"))>>, <<NamedT("DualDTO")>>),
           Method("MapLoose", <<Param("l", NamedT("Loose"))>>, <<NamedT("LooseDTO")>>)>>
    [] name \in Malformed ->
         <<Method("Alpha", <<Param("a", NamedT("X"))>>, <<NamedT("Y")>>),
           MalformedMethod(name),
           Method("Gamma", <<Param("i", NamedT("Inner"))>>, <<NamedT("InnerDTO")>>)>>
    [] name = "Mapper" ->
         <<Method("Map", <<Param("a", NamedT("X"))>>, <<NamedT("Y")>>),
           Method("MapErr", <<Param("a", NamedT("X"))>>, <<NamedT("Y"), ErrorT>>)>>
    [] name = "MapsrcMapper" ->
         <<Method("MapInput", <<Param("in", NamedT("Input"))>>, <<NamedT("Output")>>)>>
    [] name = "QuietMapper" ->
         <<Method("MapMulti", <<Param("m", NamedT("Multi"))>>, <<NamedT("MultiDTO"), ErrorT>>),
           Method("MapTopQuiet", <<Param("t", NamedT("Top"))>>, <<NamedT("TopDTO")>>)>>
    [] name = "RecMapper" ->
         <<Method("AToB", <<Param("a", NamedT("A"))>>, <<NamedT("B")>>)>>
    [] name = "TeamMapper" ->
         <<Method("MapTeam", <<Param("t", NamedT("Team"))>>, <<NamedT("TeamDTO")>>)>>
    [] name = "TopMapper" ->
         <<Method("MapTop", <<Param("t", NamedT("Top"))>>, <<NamedT("TopDTO"), ErrorT>>)>>
    [] name = "UserMapper" ->
         <<Method("FromPtr", <<Param("u", PtrT(NamedT("User")))>>, <<NamedT("UserDTO")>>),
           Method("PtrToPtr", <<Param("u", PtrT(NamedT("User")))>>, <<PtrT(NamedT("UserDTO"))>>),
           Method("ToDTO", <<Param("u", NamedT("User"))>>, <<NamedT("UserDTO")>>),
           Method("ToPtr", <<Param("u", NamedT("User"))>>, <<PtrT(NamedT("UserDTO"))>>)>>
    [] OTHER -> <<>>

\* functions every package of the model declares next to the chosen ones:
\* an unexported one and one with two parameters, which discovery skips
NoiseFuncs == {"userToDTO", "Join"}

\* the custom mapping functions a package may or may not declare
CustomFuncs == {"XToY", "XToYErr", "InnerToDTO", "ElemToElemDTO", "UserToDTO"}

\* the generation runs of the model: the interfaces named on the command
\* line and the package-level functions of the package
Configs ==
  {[Interfaces |-> is, Scope |-> fs \cup NoiseFuncs] :
     is \in {x \in SUBSET (IfaceNames \ Malformed) : x # {} /\ Cardinality(x) <= MaxInterfaces},
     fs \in {x \in SUBSET CustomFuncs : Cardinality(x) <= MaxFuncs}}
    \cup {[Interfaces |-> is \cup {b}, Scope |-> NoiseFuncs] :
             is \in {x \in SUBSET (IfaceNames \ Malformed) : Cardinality(x) < MaxInterfaces},
             b \in Malformed}

\* sort.Strings(cfg.Interfaces)
sortedInterfaces(names) == SelectSeq(IfaceOrder, LAMBDA n : n \in names)

(***************************************************************************)
(* The generation run (generator.run) as a state machine.                  *)
(***************************************************************************)
VARIABLES
  cfg,              \* the Config of the run and the scope of the loaded package
  pc,               \* the position of run
  g,                \* the generator: registry, helperNames, helperPlans, helperModels
  interfaceModels,  \* run's interfaceModels
  allPlans,         \* run's allPlans: the method plans of each interface
  idx,              \* the index of the loop run is in (1-based)
  err,              \* the error run returns, "" for nil
  helperErr,        \* helperErrMap: the names of the fallible helpers
  out,              \* the fileModel handed to the file template
  req,              \* the assignment the resolver is asked for when run on its own
  run               \* the invocation of a generated function and what it returned

vars == <<cfg, pc, g, interfaceModels, allPlans, idx, err, helperErr, out, req, run>>

NoFile == [Helpers |-> <<>>, Interfaces |-> <<>>, NeedContext |-> FALSE]

\* no assignment asked for, no generated function invoked
NoReq == [destType |-> <<>>, srcType |-> <<>>, currentMethod |-> "", nodes |-> <<>>]
NoRun == [fn |-> "", arg |-> <<>>, status |-> "", val |-> <<>>, failed |-> FALSE, log |-> <<>>]

Init ==
  /\ cfg \in Configs
  /\ pc = "discover"
  /\ g = newGenerator
  /\ interfaceModels = <<>>
  /\ allPlans = <<>>
  /\ idx = 1
  /\ err = ""
  /\ helperErr = {}
  /\ out = NoFile
  /\ req = NoReq
  /\ run = NoRun

\* run, lines 52-64: sort the interface names, reset the memo, discover the
\* custom functions and merge them into the registry
Discover ==
  /\ pc = "discover"
  /\ g' = mergeFuncs(g, discoverCustomFuncs(g, cfg.Scope))
  /\ pc' = "build"
  /\ idx' = 1
  /\ UNCHANGED <<req, run, cfg, interfaceModels, allPlans, err, helperErr, out>>

\* run, lines 67-74: buildInterfaceModel for the next interface
BuildInterface ==
  /\ pc = "build"
  /\ LET built(last, r) ==
           IF r.err # ""
             THEN /\ err' = r.err
                  /\ pc' = "failed"
                  /\ g' = r.g
                  /\ UNCHANGED <<interfaceModels, allPlans, idx>>
             ELSE /\ g' = r.g
                  /\ interfaceModels' = Append(interfaceModels, r.model)
                  /\ allPlans' = Append(allPlans, r.plans)
                  /\ IF last THEN pc' = "populate1" /\ idx' = 1
                             ELSE pc' = pc /\ idx' = idx + 1
                  /\ err' = err
         named(names, name) == built(idx = Len(names), buildInterfaceModel(g, name, IfaceMethods(name)))
         over(names) == idx <= Len(names) /\ named(names, names[idx])
     IN over(sortedInterfaces(cfg.Interfaces))
  /\ UNCHANGED <<req, run, cfg, helperErr, out>>

\* populateHelpers, one iteration of its loop (first or second pass)
PopulateHelper ==
  /\ pc \in {"populate1", "populate2"}
  /\ idx <= Len(g.helperPlans)
  /\ LET step(r) == /\ g' = r.g
                    /\ IF r.panic THEN pc' = "panic" /\ idx' = idx
                                  ELSE pc' = pc /\ idx' = idx + 1
     IN step(populateHelper(g, cfg.Scope, idx))
  /\ UNCHANGED <<req, run, cfg, interfaceModels, allPlans, err, helperErr, out>>

\* populateHelpers returns: its loop index has passed the last plan
PopulateReturn ==
  /\ pc \in {"populate1", "populate2"}
  /\ idx > Len(g.helperPlans)
  /\ pc' = IF pc = "populate1" THEN "methods" ELSE "dedup"
  /\ idx' = 1
  /\ UNCHANGED <<req, run, cfg, g, interfaceModels, allPlans, err, helperErr, out>>

\* run, lines 79-83: populateMethods for the next interface
PopulateMethods ==
  /\ pc = "methods"
  /\ idx <= Len(interfaceModels)
  /\ LET step(r) == /\ g' = r.g
                    /\ interfaceModels' = [interfaceModels EXCEPT ![idx].Methods = r.models]
                    /\ err' = r.err
                    /\ IF r.err # "" THEN pc' = "failed" /\ idx' = idx
                       ELSE IF idx = Len(interfaceModels) THEN pc' = "populate2" /\ idx' = 1
                       ELSE pc' = pc /\ idx' = idx + 1
     IN \E ord \in iterationOrders(paramNames(allPlans[idx])) :
          step(populateMethods(g, allPlans[idx], ord))
  /\ UNCHANGED <<req, run, cfg, allPlans, helperErr, out>>

\* run, lines 86-97: de-duplicate the helper models by name
Dedup ==
  /\ pc = "dedup"
  /\ g' = [g EXCEPT !.helperModels = dedupHelpers(@)]
  /\ pc' = "analyze"
  /\ UNCHANGED <<req, run, cfg, interfaceModels, allPlans, idx, err, helperErr, out>>

\* run, lines 99-100: computeHelperErrors and annotateHelperErrorUsage
Analyze ==
  /\ pc = "analyze"
  /\ LET step(r) == /\ helperErr' = r.helperErr
                    /\ g' = [g EXCEPT !.helperModels = annotateHelpers(r.models, r.helperErr)]
                    /\ interfaceModels' = annotateInterfaces(interfaceModels, r.helperErr)
     IN step(computeHelperErrors(g.helperModels))
  /\ pc' = "context"
  /\ UNCHANGED <<req, run, cfg, allPlans, idx, err, out>>

\* run, lines 101-114: thread the context through every helper if needed
MarkContext ==
  /\ pc = "context"
  /\ g' = IF needContext(interfaceModels)
            THEN [g EXCEPT !.helperModels = [i \in 1..Len(@) |-> [@[i] EXCEPT !.HasContext = TRUE]]]
            ELSE g
  /\ pc' = "emit"
  /\ UNCHANGED <<req, run, cfg, interfaceModels, allPlans, idx, err, helperErr, out>>

\* run, line 136: the fileModel handed to the template
Emit ==
  /\ pc = "emit"
  /\ out' = [Helpers |-> g.helperModels, Interfaces |-> interfaceModels,
             NeedContext |-> needContext(interfaceModels)]
  /\ pc' = "done"
  /\ UNCHANGED <<req, run, cfg, g, interfaceModels, allPlans, idx, err, helperErr>>

Next ==
  \/ Discover
  \/ BuildInterface
  \/ PopulateHelper
  \/ PopulateReturn
  \/ PopulateMethods
  \/ Dedup
  \/ Analyze
  \/ MarkContext
  \/ Emit

Spec == Init /\ [][Next]_vars

(***************************************************************************)
(* The assignment resolver on its own: buildAssignmentNodes asked for one  *)
(* pair of types under a registry that discovery and the interface planner *)
(* can leave behind.                                                       *)
(***************************************************************************)
\* the types the resolver is asked about
ResolveTypes ==
  {IntT, NamedT("UserID"), NamedT("IDs"), SliceT(IntT), AnyT,
   NamedT("X"), NamedT("Y"), PtrT(NamedT("X")), PtrT(NamedT("Y")), PtrT(IntT),
   SliceT(NamedT("X")), SliceT(NamedT("Y")),
   ArrayT(NamedT("X"), 2), ArrayT(NamedT("Y"), 2), ArrayT(NamedT("Y"), 3),
   MapT(StringT, NamedT("X")), MapT(StringT, NamedT("Y")), MapT(IntT, NamedT("Y"))}

\* what the registry may hold under one key: nothing, a custom function
\* (fallible or not) or an interface method
Providers ==
  {[Name |-> ""],
   registryEntry("Convert", FALSE, regKindCustomFunc),
   registryEntry("ConvertErr", TRUE, regKindCustomFunc),
   registryEntry("Map", FALSE, regKindInterfaceMethod),
   registryEntry("Other", TRUE, regKindInterfaceMethod)}

\* the registry holds e for the pair under resolution and pe for its pointees
\* (either may be the empty entry); an interface method maps two records or
\* two collections (buildMethodModel), a custom function any pair. A custom
\* function is held under the key discoverCustomFuncs forms for it, a
\* fallible one under the key that ends in #err
ResolveInit ==
  /\ pc = "resolve"
  /\ LET registryWith(s, d, e) ==
           IF e.Name = "" THEN EmptyMap
           ELSE IF e.Kind = regKindCustomFunc
                  THEN (customFuncKey(TypeString(s), TypeString(d), e.HasError) :> e)
                  ELSE (pairKey(s, d) :> e)
         methodPair(s, d) ==
           \/ (underlyingStruct(s).s # NoStruct /\ underlyingStruct(d).s # NoStruct)
           \/ (isCollectionLike(s) /\ isCollectionLike(d))
     IN \E d \in ResolveTypes, s \in ResolveTypes, cm \in {"", "Map"}, e \in Providers, pe \in Providers :
          /\ (e.Name # "" /\ e.Kind = regKindInterfaceMethod) => methodPair(s, d)
          /\ (pe.Name # "") => (TKind(d) = "ptr" /\ TKind(s) = "ptr")
          /\ (pe.Name # "" /\ pe.Kind = regKindInterfaceMethod) => methodPair(TElem(s), TElem(d))
          /\ req = [NoReq EXCEPT !.destType = d, !.srcType = s, !.currentMethod = cm]
          /\ g = [newGenerator EXCEPT
                    !.registry = registryWith(s, d, e)
                                   @@ IF pe.Name = "" THEN EmptyMap
                                      ELSE registryWith(TElem(s), TElem(d), pe)]
  /\ cfg = [Interfaces |-> {}, Scope |-> {}]
  /\ interfaceModels = <<>>
  /\ allPlans = <<>>
  /\ idx = 1
  /\ err = ""
  /\ helperErr = {}
  /\ out = NoFile
  /\ run = NoRun

\* buildAssignmentNodes("dst", "in", destType, srcType, currentMethod, false)
Resolve ==
  /\ pc = "resolve"
  /\ LET step(r) == /\ req' = [req EXCEPT !.nodes = r.nodes]
                    /\ g' = r.g
     IN step(buildAssignmentNodes(g, "dst", "in", req.destType, req.srcType, req.currentMethod, FALSE))
  /\ pc' = "resolved"
  /\ UNCHANGED <<run, cfg, interfaceModels, allPlans, idx, err, helperErr, out>>

SpecResolve == ResolveInit /\ [][Resolve]_vars

(***************************************************************************)
(* The whole run as one function of its configuration: the same steps in   *)
(* the same order, for the specifications that execute the emitted code.   *)
(***************************************************************************)
RECURSIVE buildAllFrom(_, _, _, _, _)
buildAllFrom(g0, names, i, models, plans) ==
  LET next(r) ==
        IF r.err # "" THEN [g |-> r.g, models |-> models, plans |-> plans, err |-> r.err]
        ELSE buildAllFrom(r.g, names, i + 1, Append(models, r.model), Append(plans, r.plans))
  IN IF i > Len(names) THEN [g |-> g0, models |-> models, plans |-> plans, err |-> ""]
     ELSE next(buildInterfaceModel(g0, names[i], IfaceMethods(names[i])))

RECURSIVE populateHelpersFrom(_, _, _)
\* populateHelpers: the loop from plan i to the end of the growing queue
populateHelpersFrom(g0, scope, i) ==
  LET next(r) == IF r.panic THEN r ELSE populateHelpersFrom(r.g, scope, i + 1)
  IN IF i > Len(g0.helperPlans) THEN [g |-> g0, panic |-> FALSE]
     ELSE next(populateHelper(g0, scope, i))

RECURSIVE populateAllMethodsFrom(_, _, _, _)
populateAllMethodsFrom(g0, models, plans, i) ==
  LET next(r) == IF r.err # "" THEN [g |-> r.g, models |-> models, err |-> r.err]
                 ELSE populateAllMethodsFrom(r.g, [models EXCEPT ![i].Methods = r.models], plans, i + 1)
  IN IF i > Len(models) THEN [g |-> g0, models |-> models, err |-> ""]
     ELSE next(populateMethods(g0, plans[i],
                               CHOOSE ord \in iterationOrders(paramNames(plans[i])) : TRUE))

\* run: the emitted fileModel, or the error or panic that ends the run
generate(c) ==
  LET file(helpers, interfaces, ctx) ==
        [Helpers |-> IF ctx THEN [i \in 1..Len(helpers) |-> [helpers[i] EXCEPT !.HasContext = TRUE]]
                            ELSE helpers,
         Interfaces |-> interfaces, NeedContext |-> ctx]
      emitted(helpers, interfaces) == file(helpers, interfaces, needContext(interfaces))
      analyzed(m, a) ==
        emitted(annotateHelpers(a.models, a.helperErr), annotateInterfaces(m.models, a.helperErr))
      result(b, p1, m, p2) ==
        IF b.err # "" THEN [status |-> "failed", err |-> b.err, file |-> NoFile]
        ELSE IF ~p1.panic /\ m.err # "" THEN [status |-> "failed", err |-> m.err, file |-> NoFile]
        ELSE IF p1.panic \/ p2.panic THEN [status |-> "panic", err |-> "", file |-> NoFile]
        ELSE [status |-> "done", err |-> "",
              file |-> analyzed(m, computeHelperErrors(dedupHelpers(p2.g.helperModels)))]
      withMethods(b, p1, m) == result(b, p1, m, populateHelpersFrom(m.g, c.Scope, 1))
      populated(b, p1) == withMethods(b, p1, populateAllMethodsFrom(p1.g, b.models, b.plans, 1))
      built(b) == populated(b, populateHelpersFrom(b.g, c.Scope, 1))
      discovered(g1) == built(buildAllFrom(g1, sortedInterfaces(c.Interfaces), 1, <<>>, <<>>))
  IN discovered(mergeFuncs(newGenerator, discoverCustomFuncs(newGenerator, c.Scope)))


RECURSIVE typeParts(_)
\* a type and the types it is built from
typeParts(t) ==
  {t} \cup (IF TKind(t) \in {"ptr", "slice", "array"} THEN typeParts(TElem(t))
            ELSE IF TKind(t) = "map" THEN typeParts(TKey(t)) \cup typeParts(TVal(t))
            ELSE {})

\* the finitely many types a helper can be reserved for: those of the
\* package's fields and method signatures, and their parts
PackageTypes ==
  LET fieldTypes(fs) == {fs[i].type : i \in 1..Len(fs)}
      sigTypes(ms) == UNION {{ms[i].Params[k].Type : k \in 1..Len(ms[i].Params)}
                               \cup {ms[i].Results[k] : k \in 1..Len(ms[i].Results)} : i \in 1..Len(ms)}
  IN UNION {typeParts(t) :
              t \in UNION ({fieldTypes(StructFields(n)) : n \in StructNames}
                           \cup {sigTypes(IfaceMethods(n)) : n \in IfaceNames})}

(***************************************************************************)
(* The generated code, executed.  A value is nil, an int, a string, a      *)
(* struct (its type name and its fields), a pointer to a value, a slice,   *)
(* an array, or a map (its entries in the order this run iterates them).   *)
(***************************************************************************)
NilV == [k |-> "nil"]
Val(k, v) == [k |-> k, v |-> v]
StructV(t, f) == [k |-> "struct", t |-> t, v |-> f]

\* the type a type expression of the generated file denotes
typeOf(s) == CHOOSE t \in PackageTypes : TypeString(t) = s

RECURSIVE zeroOf(_)
\* the zero value of a type: `var mapped T`, `var dst T`
zeroOf(t) ==
  LET typeOfField(fs, n) == fs[CHOOSE i \in 1..Len(fs) : fs[i].name = n].type
      fields(name, fs) ==
        StructV(name, [n \in {fs[i].name : i \in 1..Len(fs)} |-> zeroOf(typeOfField(fs, n))])
      under(u) ==
        CASE u = IntT -> Val("int", 0)
          [] u = StringT -> Val("str", "")
          [] TKind(u) = "struct" -> fields(u[2], StructFields(u[2]))
          [] TKind(u) = "array" -> Val("array", [i \in 1..TLen(u) |-> zeroOf(TElem(u))])
          [] OTHER -> NilV
  IN under(Underlying(t))

\* the sequences over S of length at most n
SeqsUpTo(S, n) == UNION {[1..m -> S] : m \in 0..n}

RECURSIVE Inputs(_, _)
\* the argument values of type t the generated functions are called with:
\* collections of at most MaxLen elements, map keys among "a" and "b", and
\* a nil pointer where the pointee is a struct in seen (one already being
\* built)
Inputs(t, seen) ==
  LET RECURSIVE fieldsFrom(_, _, _)
      fieldsFrom(fs, i, on) ==
        IF i > Len(fs) THEN {EmptyMap}
        ELSE {(fs[i].name :> v) @@ r : v \in Inputs(fs[i].type, on), r \in fieldsFrom(fs, i + 1, on)}
      entries(keys, vals) ==
        {e \in SeqsUpTo([key : keys, val : vals], IF MaxLen < 2 THEN MaxLen ELSE 2) :
           \A i, j \in 1..Len(e) : e[i].key = e[j].key => i = j}
      under(u) ==
        CASE u = IntT -> {Val("int", -1), Val("int", 1)}
          [] u = StringT -> {Val("str", "a")}
          [] TKind(u) = "struct" ->
               IF u[2] \in seen THEN {}
               ELSE {StructV(u[2], f) : f \in fieldsFrom(StructFields(u[2]), 1, seen \cup {u[2]})}
          [] TKind(u) = "ptr" -> {NilV} \cup {Val("ptr", v) : v \in Inputs(TElem(u), seen)}
          [] TKind(u) = "slice" ->
               {NilV} \cup {Val("slice", e) : e \in SeqsUpTo(Inputs(TElem(u), seen), MaxLen)}
          [] TKind(u) = "array" -> {Val("array", e) : e \in [1..TLen(u) -> Inputs(TElem(u), seen)]}
          [] TKind(u) = "map" ->
               {NilV} \cup {Val("map", e) : e \in entries({"a", "b"}, Inputs(TVal(u), seen))}
          [] OTHER -> {NilV}
  IN under(Underlying(t))

\* a segment of a selector expression: its field name and whether it is
\* indexed by the loop variable i
segment(s) ==
  IF Len(s) > 3 /\ SubSeq(s, Len(s) - 2, Len(s)) = "[i]"
    THEN [name |-> SubSeq(s, 1, Len(s) - 3), indexed |-> TRUE]
    ELSE [name |-> s, indexed |-> FALSE]

RECURSIVE selectPath(_, _, _)
\* the value of the selector parts in v (a pointer is dereferenced on the
\* way); ok is FALSE for a nil dereference and an index out of range.  i is
\* the value of the loop variable i, counted from 1.
selectPath(v, parts, i) ==
  LET element(c) ==
        IF c.k \in {"slice", "array"} /\ i \in 1..Len(c.v) THEN selectPath(c.v[i], Tail(parts), i)
        ELSE [ok |-> FALSE, val |-> NilV]
      field(sg) ==
        IF v.k # "struct" \/ sg.name \notin DOMAIN v.v THEN [ok |-> FALSE, val |-> NilV]
        ELSE IF sg.indexed THEN element(v.v[sg.name])
        ELSE selectPath(v.v[sg.name], Tail(parts), i)
  IN IF parts = <<>> THEN [ok |-> TRUE, val |-> v]
     ELSE IF v.k = "ptr" THEN selectPath(v.v, parts, i)
     ELSE field(segment(parts[1]))

RECURSIVE updatePath(_, _, _, _)
\* v with the selector parts set to val
updatePath(v, parts, val, i) ==
  LET inPtr(r) == [ok |-> r.ok, val |-> Val("ptr", r.val)]
      inElem(c, r) == [ok |-> r.ok, val |-> [c EXCEPT !.v[i] = r.val]]
      inField(name, r) == [ok |-> r.ok, val |-> [v EXCEPT !.v[name] = r.val]]
      element(c) ==
        IF c.k \in {"slice", "array"} /\ i \in 1..Len(c.v)
          THEN inElem(c, updatePath(c.v[i], Tail(parts), val, i))
          ELSE [ok |-> FALSE, val |-> c]
      field(sg) ==
        IF v.k # "struct" \/ sg.name \notin DOMAIN v.v THEN [ok |-> FALSE, val |-> v]
        ELSE IF sg.indexed THEN inField(sg.name, element(v.v[sg.name]))
        ELSE inField(sg.name, updatePath(v.v[sg.name], Tail(parts), val, i))
  IN IF parts = <<>> THEN [ok |-> TRUE, val |-> val]
     ELSE IF v.k = "ptr" THEN inPtr(updatePath(v.v, parts, val, i))
     ELSE field(segment(parts[1]))

\* the value of expression expr in the variables env
evalExpr(env, expr) ==
  selectPath(StructV("", env), Split(expr, "."), IF "i" \in DOMAIN env THEN env["i"] ELSE 0)

\* the variables after `expr = val`
assignExpr(env, expr, val) ==
  updatePath(StructV("", env), Split(expr, "."), val, IF "i" \in DOMAIN env THEN env["i"] ELSE 0)

\* the package-level functions of the examples: what they return for arg.
\* ok is FALSE when arg is not a value of the parameter type.
customFunc(name, arg) ==
  LET res(ok, val, failed) == [ok |-> ok, val |-> val, failed |-> failed]
      \* mode "checked" fails on a negative field f and else copies it,
      \* "copy" copies the fields, "fail" always fails; zero is dst{}
      body(src, dst, f, mode, zero) ==
        IF ~(arg.k = "struct" /\ arg.t = src) THEN res(FALSE, NilV, FALSE)
        ELSE IF mode = "fail" THEN res(TRUE, zero, TRUE)
        ELSE IF mode = "copy" THEN res(TRUE, StructV(dst, arg.v), FALSE)
        ELSE IF arg.v[f].v < 0 THEN res(TRUE, zero, TRUE)
        ELSE res(TRUE, StructV(dst, (f :> arg.v[f])), FALSE)
      of(s) == body(s[1], s[2], s[3], s[4], zeroOf(NamedT(s[2])))
  IN of(CASE name = "ElemToElemDTO" -> <<"Elem", "ElemDTO", "V", "checked">>
          [] name = "InnerToDTO" -> <<"Inner", "InnerDTO", "V", "checked">>
          [] name = "XToY" -> <<"X", "Y", "N", "copy">>
          [] name = "XToYErr" -> <<"X", "Y", "N", "fail">>
          [] name \in {"UserToDTO", "userToDTO"} -> <<"User", "UserDTO", "ID", "copy">>
          [] OTHER -> <<"", "X", "", "copy">>)

(***************************************************************************)
(* The statements the node templates emit.  A frame fr is the function     *)
(* being executed: the file, the function's name, whether it has an error  *)
(* result, and its call depth.  A state st is the function's variables     *)
(* (env), its status ("run", "ret" after a return statement, "panic",      *)
(* "invalid" on a statement the Go compiler rejects), the returned value   *)
(* and failure, and the log of what happened so far.                       *)
(***************************************************************************)
\* whether the value v may be returned where the type t is declared
hasType(v, t) ==
  LET under(u) ==
        CASE v = NilV -> TKind(u) \in {"ptr", "slice", "map"}
          [] v.k = "struct" -> t = NamedT(v.t)
          [] v.k = "int" -> u = IntT
          [] v.k = "str" -> u = StringT
          [] OTHER -> TKind(u) = v.k
  IN under(Underlying(t))

event(kind, fr, what) == [ev |-> kind, fn |-> fr.fn, depth |-> fr.depth, what |-> what]

\* `dest = val`
store(fr, st, dest, val) ==
  LET done(r) == IF r.ok THEN [st EXCEPT !.env = r.val.v, !.log = Append(@, event("assign", fr, dest))]
                         ELSE [st EXCEPT !.status = "panic"]
  IN done(assignExpr(st.env, dest, val))

\* a failed call never ending the function: its result is assigned
failureIgnored(n) == [returns |-> FALSE, expr |-> n.Dest]

\* `if err != nil { return <dst or Dest>, err }` after a fallible call
failureReturn(n) == [returns |-> TRUE, expr |-> IF n.Dest = "mapped" THEN "dst" ELSE n.Dest]

\* an empty slice in place of nil
emptyResult(n) == Val("slice", <<>>)

\* the else branch of the nil tests: `Dest = nil`
nilResult(n) == NilV

\* a destination of no elements
makeEmpty(n, len) == Val(IF n.Kind = nodeKindSliceMap THEN "slice" ELSE "map", <<>>)

\* make(DestType, len(Src)): a slice of len zero values, an empty map
makeDest(n, len) ==
  IF n.Kind = nodeKindSliceMap
    THEN Val("slice", [j \in 1..len |-> zeroOf(TElem(Underlying(typeOf(n.DestType))))])
    ELSE Val("map", <<>>)

RECURSIVE execNodes(_, _, _, _)
RECURSIVE callFn(_, _, _, _)
RECURSIVE execFunc(_, _, _, _, _)

\* the statements of a node that calls callee with the value arg and
\* assigns the result to n.Dest
callAssign(fr, n, st, callee, arg) ==
  LET returned(s1, r, v) ==
        IF ~v.ok THEN [s1 EXCEPT !.status = "panic"]
        ELSE IF ~fr.fallible \/ ~hasType(v.val, typeOf(fr.dest)) THEN [s1 EXCEPT !.status = "invalid"]
        ELSE [s1 EXCEPT !.status = "ret", !.val = v.val, !.failed = TRUE]
      after(s1, r) ==
        IF r.status # "ok" THEN [s1 EXCEPT !.status = r.status]
        ELSE IF n.WithError # (r.arity = 2) THEN [s1 EXCEPT !.status = "invalid"]
        ELSE IF r.failed /\ failureReturn(n).returns
          THEN returned(s1, r, evalExpr(s1.env, failureReturn(n).expr))
        ELSE store(fr, s1, n.Dest, r.val)
      \* the log records the call, what the callee did, and its failure
      called(r) ==
        after([st EXCEPT !.log = (@ \o <<event("call", fr, callee)>>) \o r.log
                                   \o (IF r.failed THEN <<event("fail", fr, n.Dest)>> ELSE <<>>)], r)
  IN called(callFn(fr.file, callee, arg, fr.depth + 1))

RECURSIVE loopFrom(_, _, _, _, _)
\* the loop of a sliceMap, mapMap or arrayMap node from item i on
loopFrom(fr, n, items, i, st) ==
  LET \* `Dest[i] = mapped`, `Dest[k] = mapped`
      put(s1, key, cur) ==
        IF s1.status # "run" \/ n.Kind = nodeKindArrayMap THEN s1
        ELSE IF n.Kind = nodeKindSliceMap THEN store(fr, s1, n.Dest \o "[i]", s1.env["mapped"])
        ELSE IF ~cur.ok \/ cur.val.k # "map" THEN [s1 EXCEPT !.status = "invalid"]
        ELSE store(fr, s1, n.Dest,
                   Val("map", Append(cur.val.v, [key |-> key, val |-> s1.env["mapped"]])))
      body(s1, key) == put(s1, key, evalExpr(s1.env, n.Dest))
      \* the variables of one iteration
      scope(item) ==
        IF n.Kind = nodeKindArrayMap THEN ("i" :> i) @@ st.env
        ELSE IF n.Kind = nodeKindSliceMap
          THEN ("i" :> i) @@ ("v" :> item) @@ ("mapped" :> zeroOf(typeOf(n.ElemType))) @@ st.env
        ELSE ("k" :> Val("str", item.key)) @@ ("v" :> item.val)
               @@ ("mapped" :> zeroOf(typeOf(n.ElemType))) @@ st.env
      iterate(item) ==
        body(execNodes(fr, n.Children, 1, [st EXCEPT !.env = scope(item)]),
             IF n.Kind = nodeKindMapMap THEN item.key ELSE "")
  IN IF st.status # "run" \/ i > Len(items) THEN st
     ELSE loopFrom(fr, n, items, i + 1, iterate(items[i]))

\* the variables after a loop: those declared before it, the ones the loop
\* declared anew holding their earlier values
afterLoop(outer, st) ==
  [st EXCEPT !.env = [x \in DOMAIN outer |->
                        IF x \in {"i", "k", "v", "mapped"} THEN outer[x] ELSE st.env[x]]]

\* a Return node: `return Expr`, followed by `, nil` when WithError
execReturn(fr, n, st) ==
  LET values(k) == k + (IF n.WithError THEN 1 ELSE 0)
      wanted == IF fr.fallible THEN 2 ELSE 1
      plain(r) ==
        IF ~r.ok THEN [st EXCEPT !.status = "panic"]
        ELSE IF values(1) # wanted THEN [st EXCEPT !.status = "invalid"]
        ELSE [st EXCEPT !.status = "ret", !.val = r.val]
      delegated(s1, r) ==
        IF r.status # "ok" THEN [s1 EXCEPT !.status = r.status]
        ELSE IF values(r.arity) # wanted THEN [s1 EXCEPT !.status = "invalid"]
        ELSE [s1 EXCEPT !.status = "ret", !.val = r.val, !.failed = r.failed]
      called(callee, r) ==
        delegated([st EXCEPT !.log = (@ \o <<event("call", fr, callee)>>) \o r.log], r)
      withArg(callee, a) ==
        IF ~a.ok THEN [st EXCEPT !.status = "panic"]
        ELSE called(callee, callFn(fr.file, callee, a.val, fr.depth + 1))
      \* the text between the parentheses, the opening one at index i
      argOf(i) == SubSeq(n.Expr, i + 2, Len(n.Expr) - 1)
      returning(callee) ==
        IF callee = "" THEN plain(evalExpr(st.env, n.Expr))
        ELSE withArg(callee, evalExpr(st.env, argOf(indexOfParen(n.Expr))))
  IN returning(returnCallee(n.Expr))

\* the kinds whose template emits a comment and no statement
emitsNoStatement(n) == n.Kind \in {nodeKindComment, nodeKindUnsupported}

\* the statements of one node
execNode(fr, n, st) ==
  LET calls == {nodeKindAssignHelper, nodeKindAssignMethod, nodeKindAssignFunc,
                nodeKindPtrStructMap, nodeKindPtrMethodMap, nodeKindPtrFuncMap}
      \* the kinds whose template starts with `if Src != nil`
      guards == {nodeKindPtrStructMap, nodeKindPtrMethodMap, nodeKindPtrFuncMap,
                 nodeKindSliceMap, nodeKindMapMap}
      callee == IF n.Kind \in {nodeKindAssignHelper, nodeKindPtrStructMap} THEN n.Helper ELSE n.Method
      read == IF n.Kind \in {nodeKindAssignMethod, nodeKindAssignFunc} THEN n.Arg ELSE n.Src
      looped(r, s1) ==
        IF n.Kind \in {nodeKindSliceMap, nodeKindMapMap, nodeKindArrayMap} /\ r.val # NilV
          THEN afterLoop(st.env, loopFrom(fr, n, r.val.v, 1, s1))
          ELSE s1
      \* r is the value read; the value stored without a call or a loop is
      \* r itself, nil, or the collection made for the loop to fill
      step(r) ==
        IF ~r.ok THEN [st EXCEPT !.status = "panic"]
        ELSE IF n.Kind \in calls /\ ~(n.Kind \in guards /\ r.val = NilV)
          THEN callAssign(fr, n, st, callee, r.val)
        ELSE IF n.Kind = nodeKindArrayMap /\ r.val.k # "array" THEN [st EXCEPT !.status = "invalid"]
        ELSE IF n.Kind \in {nodeKindSliceMap, nodeKindMapMap} /\ r.val # NilV
                /\ r.val.k \notin {"slice", "map"} THEN [st EXCEPT !.status = "invalid"]
        ELSE looped(r, IF n.Kind = nodeKindArrayMap THEN st
                       ELSE store(fr, st, n.Dest,
                                  IF n.Kind \in {nodeKindAssignDirect, nodeKindAssignCast} THEN r.val
                                  ELSE IF r.val = NilV THEN nilResult(n)
                                  ELSE makeDest(n, Len(r.val.v))))
  IN IF n.Kind = nodeKindReturn THEN execReturn(fr, n, st)
     ELSE IF emitsNoStatement(n) THEN st
     ELSE IF n.Kind \in calls \cup guards \cup {nodeKindArrayMap, nodeKindAssignDirect, nodeKindAssignCast}
       THEN step(evalExpr(st.env, read))
     ELSE [st EXCEPT !.status = "invalid"]

\* the "nodes" template: the statements of the nodes in order, up to the
\* first that ends the function
execNodes(fr, nodes, i, st) ==
  IF i > Len(nodes) \/ st.status # "run" THEN st
  ELSE execNodes(fr, nodes, i + 1, execNode(fr, nodes[i], st))

\* what a helper does before its body: the early return of ZeroReturn on a
\* nil source when SrcIsPtr, and the destination it starts from (allocated
\* when DestIsPtr).  populateHelpers fills these three fields of the
\* helperModel for the helper template; helper.gtpl as it is in the tree
\* declares dst and returns it and reads none of them.
helperFrame(h, arg) ==
  LET frame(early, zero) ==
        [early |-> early,
         zero |-> IF h.ZeroReturn = "nil" THEN NilV ELSE zero,
         dst |-> IF h.DestIsPtr THEN Val("ptr", zero) ELSE zero]
      \* the type whose zero value is needed: that of the literal ZeroReturn
      \* (T{}) on the early return, else that of the destination
      typed(early) ==
        frame(early, zeroOf(typeOf(IF early /\ h.ZeroReturn # "nil"
                                     THEN SubSeq(h.ZeroReturn, 1, Len(h.ZeroReturn) - 2)
                                   ELSE IF h.DestIsPtr THEN h.UnderDestType
                                   ELSE h.DestType)))
  IN typed(h.SrcIsPtr /\ arg = NilV)

\* a call of the generated function f, a helper or an interface method,
\* with the value arg: its status ("ok", "panic" or "invalid"), the number
\* of its results, the value and failure it returns, and its log
execFunc(file, f, isHelper, arg, depth) ==
  LET fr == [file |-> file, fn |-> f.Name, dest |-> f.DestType, fallible |-> f.HasError, depth |-> depth]
      result(status, val, failed, log) ==
        [status |-> status, arity |-> IF f.HasError THEN 2 ELSE 1, val |-> val, failed |-> failed,
         log |-> log]
      finish(st) ==
        IF st.status = "ret"
          THEN result("ok", st.val, st.failed,
                      Append(st.log, event("exit", fr, IF st.failed THEN "failed" ELSE "ok")))
        ELSE IF st.status = "run"
          THEN IF isHelper THEN result("ok", st.env["dst"], FALSE, Append(st.log, event("exit", fr, "ok")))
                           ELSE result("invalid", NilV, FALSE, st.log)
        ELSE result(st.status, NilV, FALSE, st.log)
      start(env) ==
        [env |-> env, status |-> "run", val |-> NilV, failed |-> FALSE,
         log |-> <<event("enter", fr, "")>>]
      \* a helper has the variables in and dst, a method its parameter
      framed(h) ==
        IF isHelper /\ h.early
          THEN result("ok", h.zero, FALSE, <<event("enter", fr, ""), event("exit", fr, "guard")>>)
        ELSE finish(execNodes(fr, f.Body, 1,
                              start(IF isHelper THEN ("in" :> arg) @@ ("dst" :> h.dst)
                                                ELSE f.PrimaryParam :> arg)))
  IN framed(IF isHelper THEN helperFrame(f, arg) ELSE [early |-> FALSE])

\* the interface methods of the file
methodsOf(file) ==
  UNION {{file.Interfaces[i].Methods[k] : k \in 1..Len(file.Interfaces[i].Methods)} :
           i \in 1..Len(file.Interfaces)}

\* a call of the function named name: a helper of the file, a function of
\* the package or a method of the file; invalid when nothing has the name
callFn(file, name, arg, depth) ==
  LET custom(r) ==
        [status |-> IF r.ok THEN "ok" ELSE "invalid", arity |-> Len(FuncSig(name).results),
         val |-> r.val, failed |-> r.failed, log |-> <<>>]
      \* hi is the index of the helper of that name, ms the methods of that name
      found(hi, ms) ==
        IF hi = 0 /\ name \in FuncNames THEN custom(customFunc(name, arg))
        ELSE IF hi = 0 /\ ms = {}
          THEN [status |-> "invalid", arity |-> 1, val |-> NilV, failed |-> FALSE, log |-> <<>>]
        ELSE execFunc(file, IF hi # 0 THEN file.Helpers[hi] ELSE CHOOSE m \in ms : TRUE, hi # 0, arg, depth)
  IN found(helperIndex(file.Helpers, name), {m \in methodsOf(file) : m.Name = name})

(***************************************************************************)
(* The generated file in use: a caller invokes one of its functions with   *)
(* one argument of the function's source type.                             *)
(***************************************************************************)
\* the functions of the file with the type expression of their argument
Functions(file) ==
  {[name |-> file.Helpers[i].Name, src |-> file.Helpers[i].SrcType] : i \in 1..Len(file.Helpers)}
    \cup {[name |-> m.Name,
            src |-> m.Params[CHOOSE i \in 1..Len(m.Params) : m.Params[i].Name = m.PrimaryParam].Type] :
             m \in methodsOf(file)}

\* the generation runs whose file is used: one interface per run, of those
\* whose methods take one argument; a call is made once run has emitted the
\* file
ExecConfigs ==
  {[Interfaces |-> {n}, Scope |-> fs \cup NoiseFuncs] :
     n \in {i \in IfaceNames \ Malformed : \A k \in 1..Len(IfaceMethods(i)) : Len(IfaceMethods(i)[k].Params) = 1},
     fs \in {x \in SUBSET CustomFuncs : Cardinality(x) <= MaxFuncs}}

ExecInit ==
  /\ cfg \in ExecConfigs
  /\ pc = "discover"
  /\ g = newGenerator
  /\ interfaceModels = <<>>
  /\ allPlans = <<>>
  /\ idx = 1
  /\ err = ""
  /\ helperErr = {}
  /\ out = NoFile
  /\ req = NoReq
  /\ run = NoRun

\* one call of a generated function from outside the file
Invoke ==
  /\ pc = "done"
  /\ \E f \in Functions(out) : \E arg \in Inputs(typeOf(f.src), {}) :
       LET returned(r) ==
             [fn |-> f.name, arg |-> arg, status |-> r.status, val |-> r.val, failed |-> r.failed,
              log |-> r.log]
       IN run' = returned(callFn(out, f.name, arg, 0))
  /\ pc' = "returned"
  /\ UNCHANGED <<cfg, g, interfaceModels, allPlans, idx, err, helperErr, out, req>>

SpecExec == ExecInit /\ [][Next \/ Invoke]_vars

(***************************************************************************)
(* Properties of the planner.                                              *)
(***************************************************************************)
\* the source and destination types the reserve step is asked about:
\* records, pointers to records, collections and a basic type
ReserveSrc == {NamedT("User"), PtrT(NamedT("User")), NamedT("N"), SliceT(NamedT("Inner")), IntT}
ReserveDst == {NamedT("UserDTO"), PtrT(NamedT("UserDTO")), NamedT("ND"), SliceT(NamedT("InnerDTO"))}

\* C1: in every state of a run, whatever was reserved before, reserving a
\* pair (S, D) a second time returns the name of the first call and leaves
\* the memo table and the plan queue as the first call left them; this for
\* ensureStructHelper and for ensureCompositeHelper.
C1_ReserveTwice ==
  LET same(a, b) == /\ b.name = a.name
                    /\ b.g.helperNames = a.g.helperNames
                    /\ b.g.helperPlans = a.g.helperPlans
      structTwice(s, d, a) == same(a, ensureStructHelper(a.g, s, d))
      compositeTwice(s, d, c) == same(c, ensureCompositeHelper(c.g, s, d))
  IN \A s \in ReserveSrc, d \in ReserveDst :
        /\ structTwice(s, d, ensureStructHelper(g, s, d))
        /\ compositeTwice(s, d, ensureCompositeHelper(g, s, d))

\* a run has reserved several helpers, User -> UserDTO among them, and the
\* pair is reserved again: the call returns the memoised name, the generator
\* is unchanged, while a pair not seen before does enqueue a plan
C1_Witness ==
  LET again(r) == r.name = "map_User_to_UserDTO" /\ r.g = g
      fresh(r) == Len(r.g.helperPlans) = Len(g.helperPlans) + 1
  IN /\ pc = "populate2"
     /\ Len(g.helperPlans) >= 2
     /\ "User->UserDTO" \in DOMAIN g.helperNames
     /\ again(ensureStructHelper(g, NamedT("User"), NamedT("UserDTO")))
     /\ fresh(ensureStructHelper(g, NamedT("N"), NamedT("ND")))


\* the interfaces whose record types lie on a cycle through pointer fields,
\* and the (source, destination) pairs on those cycles
CyclicInterfaces == {"RecMapper", "GraphMapper"}
CyclePairs(name) ==
  IF name = "RecMapper" THEN {<<"A", "B">>}
  ELSE IF name = "GraphMapper"
    THEN {<<"N", "ND">>, <<"*N", "*ND">>, <<"P", "PD">>, <<"*Q", "*QD">>, <<"*P", "*PD">>}
  ELSE {}

\* the models of the sequence that map s to d
helpersOfPair(models, s, d) == {i \in 1..Len(models) : models[i].SrcType = s /\ models[i].DestType = d}

\* the planning of a cyclic type graph has ended as it should: one helper per
\* pair on the cycle, no name emitted twice, and in A -> B the field A of B,
\* which no field of A matches, is a comment node and reserves nothing
CyclePlanned ==
  /\ pc = "done"
  /\ \A i, j \in 1..Len(out.Helpers) : out.Helpers[i].Name = out.Helpers[j].Name => i = j
  /\ \A i, j \in 1..Len(g.helperPlans) :
        (g.helperPlans[i].SrcGoType = g.helperPlans[j].SrcGoType
         /\ g.helperPlans[i].DestGoType = g.helperPlans[j].DestGoType
         /\ g.helperPlans[i].Composite = g.helperPlans[j].Composite) => i = j
  /\ \A name \in cfg.Interfaces \cap CyclicInterfaces : \A p \in CyclePairs(name) :
        Cardinality(helpersOfPair(out.Helpers, p[1], p[2])) = 1
  /\ "RecMapper" \in cfg.Interfaces =>
        \A i \in helpersOfPair(out.Helpers, "A", "B") :
           /\ \E k \in 1..Len(out.Helpers[i].Body) :
                 /\ out.Helpers[i].Body[k].Kind = nodeKindComment
                 /\ out.Helpers[i].Body[k].Comment = "no source field for A"
           /\ \A k \in 1..Len(out.Helpers[i].Body) : out.Helpers[i].Body[k].Helper = ""

\* the position of run in program order
pcRank(p) ==
  CASE p = "discover" -> 0 [] p = "build" -> 1 [] p = "populate1" -> 2 [] p = "methods" -> 3
    [] p = "populate2" -> 4 [] p = "dedup" -> 5 [] p = "analyze" -> 6 [] p = "context" -> 7
    [] p = "emit" -> 8 [] OTHER -> 9

\* the plan queue cannot grow without end: a pair is queued once and the
\* types of a plan are types of the package; the loop index stays within it
QueueBounded ==
  /\ \A i, j \in 1..Len(g.helperPlans) :
        (g.helperPlans[i].SrcGoType = g.helperPlans[j].SrcGoType
         /\ g.helperPlans[i].DestGoType = g.helperPlans[j].DestGoType
         /\ g.helperPlans[i].Composite = g.helperPlans[j].Composite) => i = j
  /\ \A i \in 1..Len(g.helperPlans) :
        g.helperPlans[i].SrcGoType \in PackageTypes /\ g.helperPlans[i].DestGoType \in PackageTypes
  /\ pc \in {"populate1", "populate2"} => idx <= Len(g.helperPlans) + 1

\* run has ended or one of its steps can be taken
EndedOrRunnable ==
  \/ pc \in {"done", "failed", "panic"}
  \/ pc \in {"discover", "populate1", "populate2", "dedup", "analyze", "context", "emit"}
  \/ (pc = "build" /\ idx <= Len(sortedInterfaces(cfg.Interfaces)))
  \/ (pc = "methods" /\ idx <= Len(interfaceModels))

\* C2: a run over record types that lie on a cycle through pointer fields
\* (A <-> B, N -> *N, P -> *Q -> *P) terminates: every step moves run
\* forward in program order or moves the index of the loop it is in, the plan
\* queue the populate loop walks is bounded, and run never stops before its
\* end (but for a cause outside the cycle: the malformed method of another
\* interface of the run, or the field of LooseDTO whose planning crashes).
\* When it has ended there is exactly one helper for every (source,
\* destination) pair on the cycle, and the back-reference field of B that A
\* has no field for is a diagnostic comment node, not a further helper.
C2_CycleTerminates ==
  [][(cfg.Interfaces \cap CyclicInterfaces # {}) =>
       /\ (pcRank(pc') > pcRank(pc) \/ (pc' = pc /\ idx' > idx))
       /\ QueueBounded'
       /\ EndedOrRunnable'
       /\ (pc' = "failed" => cfg.Interfaces \cap Malformed # {})
       /\ (pc' = "panic" => "LooseMapper" \in cfg.Interfaces)
       /\ (pc' = "done" => CyclePlanned')]_vars

\* the run over both cyclic graphs has ended: the helper of A -> B and the
\* five helpers of the N and P/Q cycles are emitted
C2_Witness ==
  /\ pc = "done"
  /\ CyclicInterfaces \subseteq cfg.Interfaces
  /\ Len(out.Helpers) = 6
  /\ \E i \in 1..Len(out.Helpers) : out.Helpers[i].Name = "map_Ptr_P_to_Ptr_PD"


RECURSIVE flattenNodes(_)
\* the nodes of a body together with the nodes nested in them
flattenNodes(nodes) == UNION {{nodes[i]} \cup flattenNodes(nodes[i].Children) : i \in 1..Len(nodes)}

\* the helpers a helper's body calls
calleesOf(h) ==
  {n.Helper : n \in {m \in flattenNodes(h.Body) : m.Kind \in {nodeKindAssignHelper, nodeKindPtrStructMap}}}

\* the body of the helper calls a fallible custom function or interface method
callsFallible(h) ==
  \E n \in flattenNodes(h.Body) :
     /\ n.Kind \in {nodeKindAssignFunc, nodeKindAssignMethod, nodeKindPtrFuncMap, nodeKindPtrMethodMap}
     /\ n.WithError

RECURSIVE reachFallible(_, _)
\* the names of the helpers from which a helper of S is reached over
\* helper-call edges, S included
reachFallible(models, S) ==
  LET grow(T) == IF T = S THEN S ELSE reachFallible(models, T)
  IN grow(S \cup {models[i].Name : i \in {j \in 1..Len(models) : calleesOf(models[j]) \cap S # {}}})

\* C3: once the error-propagation analysis has run, every helper from whose
\* body a fallible call is reached, directly or over any number of
\* helper-call edges, is marked fallible, in whatever order the helpers were
\* planned.
C3_FallibilityClosed ==
  pc \in {"context", "emit", "done"} =>
     \A i \in 1..Len(g.helperModels) :
        g.helperModels[i].Name
            \in reachFallible(g.helperModels,
                              {g.helperModels[j].Name :
                                 j \in {k \in 1..Len(g.helperModels) : callsFallible(g.helperModels[k])}})
          => g.helperModels[i].HasError

\* the analysis has run on Top -> Outer -> Inner with the fallible InnerToDTO
\* declared: the helper of Top was planned before the helper of Outer, which
\* was planned before the fallible helper of Inner, and it is marked fallible
C3_Witness ==
  /\ pc = "done"
  /\ "InnerToDTO" \in cfg.Scope
  /\ \E i, j, k \in 1..Len(out.Helpers) :
        /\ i < j /\ j < k
        /\ out.Helpers[i].Name = "map_Top_to_TopDTO"
        /\ out.Helpers[j].Name = "map_Outer_to_OuterDTO"
        /\ out.Helpers[k].Name = "map_Inner_to_InnerDTO"
        /\ calleesOf(out.Helpers[i]) = {"map_Outer_to_OuterDTO"}
        /\ calleesOf(out.Helpers[j]) = {"map_Inner_to_InnerDTO"}
        /\ callsFallible(out.Helpers[k])
        /\ out.Helpers[i].HasError


(***************************************************************************)
(* Properties of the analysis and of the field resolver.                   *)
(***************************************************************************)
\* the node kinds that call a helper, a method or a function
CallKinds ==
  {nodeKindAssignHelper, nodeKindAssignMethod, nodeKindAssignFunc,
   nodeKindPtrStructMap, nodeKindPtrMethodMap, nodeKindPtrFuncMap}

\* body carries no failure: no call node marked WithError at any depth and
\* no Return that delegates to a helper of the set fallible
carriesNoFailure(body, fallible) ==
  \A n \in flattenNodes(body) :
     /\ (n.Kind \in CallKinds => ~n.WithError)
     /\ (n.Kind = nodeKindReturn => returnCallee(n.Expr) \notin fallible)

fallibleHelpers(file) == {file.Helpers[j].Name : j \in {k \in 1..Len(file.Helpers) : file.Helpers[k].HasError}}

\* C7: in the emitted file a method that is not declared fallible and a helper
\* that is not marked fallible contain no call node marked WithError and no
\* Return node delegating to a helper marked fallible, whatever functions
\* the package declares.
C7_NonFallibleCarriesNoFailure ==
  pc = "done" =>
    /\ \A i \in 1..Len(out.Interfaces) : \A k \in 1..Len(out.Interfaces[i].Methods) :
          ~out.Interfaces[i].Methods[k].HasError =>
             carriesNoFailure(out.Interfaces[i].Methods[k].Body, fallibleHelpers(out))
    /\ \A i \in 1..Len(out.Helpers) :
          ~out.Helpers[i].HasError => carriesNoFailure(out.Helpers[i].Body, fallibleHelpers(out))

\* the source path of destination field df ends in the struct s
RECURSIVE pathEnds(_, _)
pathEnds(s, parts) ==
  \/ parts = <<>>
  \/ /\ s # NoStruct
     /\ \E j \in 1..Len(StructFields(s)) :
          /\ StructFields(s)[j].exported
          /\ StructFields(s)[j].name = parts[1]
          /\ pathEnds(underlyingStruct(StructFields(s)[j].type).s, Tail(parts))

\* the destination fields of struct d that carry a source path ending in
\* struct s, no mapfn, and whose own name is also an exported field of s
AnnotatedAndNamed(s, d) ==
  {j \in 1..Len(StructFields(d)) :
     /\ StructFields(d)[j].exported
     /\ StructFields(d)[j].mapsrc # ""
     /\ StructFields(d)[j].mapfn = ""
     /\ pathEnds(s, Split(StructFields(d)[j].mapsrc, "."))
     /\ \E k \in 1..Len(StructFields(s)) :
          StructFields(s)[k].exported /\ StructFields(s)[k].name = StructFields(d)[j].name}

\* C10: in every helper model built from the fields of a record pair, a
\* destination field that has a same-name source field and a source path
\* that resolves (and no mapfn) is assigned from the path and by no node
\* from the same-name field.
C10_AnnotationWins ==
  \A i \in 1..Len(g.helperModels) : \A s, d \in StructNames :
     (g.helperModels[i].SrcType = s /\ g.helperModels[i].DestType = d
        /\ g.helperModels[i].Name = helperName(NamedT(s), NamedT(d), FALSE)) =>
       \A j \in AnnotatedAndNamed(s, d) :
          /\ \E k \in 1..Len(g.helperModels[i].Body) :
                /\ g.helperModels[i].Body[k].Dest = "dst." \o StructFields(d)[j].name
                /\ g.helperModels[i].Body[k].Src = "in." \o StructFields(d)[j].mapsrc
          /\ \A k \in 1..Len(g.helperModels[i].Body) :
                g.helperModels[i].Body[k].Dest = "dst." \o StructFields(d)[j].name =>
                   g.helperModels[i].Body[k].Src # "in." \o StructFields(d)[j].name

C10_Witness ==
  /\ pc = "done"
  /\ \E i \in 1..Len(out.Helpers) :
       /\ out.Helpers[i].Name = "map_Input_to_Output"
       /\ AnnotatedAndNamed("Input", "Output") # {}
       /\ \E k \in 1..Len(out.Helpers[i].Body) :
            /\ out.Helpers[i].Body[k].Kind = nodeKindAssignDirect
            /\ out.Helpers[i].Body[k].Dest = "dst.Name"
            /\ out.Helpers[i].Body[k].Src = "in.P.Name"


(***************************************************************************)
(* Properties of the assignment resolver.                                  *)
(***************************************************************************)
\* the strategies in the order the resolver is to try them
StrategyOrder ==
  <<"identical", "assignable", "provider", "sequence", "array", "map", "pointer", "record",
    "unsupported">>

\* the registry holds an entry for the pair that may be called from method cm
providerFor(registry, srcType, destType, cm) ==
  \E k \in DOMAIN registry :
     /\ k = TypeString(srcType) \o "->" \o TypeString(destType)
     /\ registry[k].Name # cm
     /\ (registry[k].Kind = regKindCustomFunc \/ cm # "")

\* strategy s applies to the request r under the registry
applicable(s, registry, r) ==
  CASE s = "identical" -> r.destType = r.srcType
    [] s = "assignable" -> AssignableTo(r.srcType, r.destType)
    [] s = "provider" -> providerFor(registry, r.srcType, r.destType, r.currentMethod)
    [] s = "sequence" -> TKind(r.destType) = "slice" /\ TKind(r.srcType) = "slice"
    [] s = "array" -> /\ TKind(r.destType) = "array" /\ TKind(r.srcType) = "array"
                      /\ TLen(r.destType) = TLen(r.srcType)
    [] s = "map" -> /\ TKind(r.destType) = "map" /\ TKind(r.srcType) = "map"
                    /\ TKey(r.destType) = TKey(r.srcType)
    [] s = "pointer" -> /\ TKind(r.destType) = "ptr" /\ TKind(r.srcType) = "ptr"
                        /\ isStructLike(TElem(r.destType)) /\ isStructLike(TElem(r.srcType))
    [] s = "record" -> isStructLike(r.destType) /\ isStructLike(r.srcType)
    [] OTHER -> TRUE

\* the node kinds strategy s emits
kindsOf(s) ==
  CASE s = "identical" -> {nodeKindAssignDirect}
    [] s = "assignable" -> {nodeKindAssignCast}
    [] s = "provider" -> {nodeKindAssignFunc, nodeKindAssignMethod}
    [] s = "sequence" -> {nodeKindSliceMap}
    [] s = "array" -> {nodeKindArrayMap}
    [] s = "map" -> {nodeKindMapMap}
    [] s = "pointer" -> {nodeKindPtrStructMap, nodeKindPtrMethodMap, nodeKindPtrFuncMap}
    [] s = "record" -> {nodeKindAssignHelper}
    [] OTHER -> {nodeKindUnsupported}

firstApplicable(registry, r) ==
  StrategyOrder[CHOOSE i \in 1..Len(StrategyOrder) :
                  /\ applicable(StrategyOrder[i], registry, r)
                  /\ \A j \in 1..(i - 1) : ~applicable(StrategyOrder[j], registry, r)]

\* C9: for every pair of types and every registry the resolver emits one
\* node, of a kind of the first strategy that applies in the order identical,
\* assignable, provider, sequence, array, map, pointer, record, unsupported.
C9_FirstApplicableWins ==
  pc = "resolved" =>
    /\ Len(req.nodes) = 1
    /\ req.nodes[1].Kind \in kindsOf(firstApplicable(g.registry, req))

C9_Witness ==
  /\ pc = "resolved"
  /\ req.destType = req.srcType
  /\ providerFor(g.registry, req.srcType, req.destType, req.currentMethod)
  /\ req.nodes[1].Kind = nodeKindAssignDirect


(***************************************************************************)
(* Properties of the generated code, over the invocations of SpecExec.     *)
(***************************************************************************)
\* the helper the invoked function is, or the one the invoked method
\* delegates to
invokedHelpers ==
  LET named(name) == {out.Helpers[i] : i \in {j \in 1..Len(out.Helpers) : out.Helpers[j].Name = name}}
  IN named(run.fn)
       \cup UNION {named(returnCallee(m.Body[1].Expr)) :
                     m \in {x \in methodsOf(out) :
                              x.Name = run.fn /\ Len(x.Body) = 1 /\ x.Body[1].Kind = nodeKindReturn}}

\* the call depth of that helper's frame
helperDepth == IF helperIndex(out.Helpers, run.fn) # 0 THEN 0 ELSE 1

\* the value a node of the invoked helper reads, and the one it has left in
\* the returned destination
srcOf(n) == evalExpr("in" :> run.arg, n.Src)
destOf(n) == evalExpr("dst" :> run.val, n.Dest)

\* a sequence node whose element conversion is a fallible package function
fallibleLoop(n) ==
  /\ n.Kind = nodeKindSliceMap
  /\ Len(n.Children) = 1
  /\ n.Children[1].Kind = nodeKindAssignFunc
  /\ n.Children[1].WithError

\* the indices of the elements of the node's source whose conversion fails
failsAt(n) ==
  IF ~srcOf(n).ok \/ srcOf(n).val = NilV THEN {}
  ELSE {j \in 1..Len(srcOf(n).val.v) : customFunc(n.Children[1].Method, srcOf(n).val.v[j]).failed}

\* C4: when element k of a sequence of N elements is the first whose
\* fallible conversion fails (and nothing failed before that sequence), the
\* function reports a failure, the destination sequence has N elements, the
\* ones before k converted and the ones from k on zero, and no conversion
\* is called after the failure.
C4_PartialFillThenFail ==
  pc = "returned" /\ run.status = "ok" =>
    \A h \in invokedHelpers : \A p \in 1..Len(h.Body) :
      LET n == h.Body[p]
          items == srcOf(n).val.v
          k == MinOf(failsAt(n))
      IN (/\ fallibleLoop(n)
          /\ failsAt(n) # {}
          /\ \A q \in 1..(p - 1) : fallibleLoop(h.Body[q]) => failsAt(h.Body[q]) = {})
         => /\ run.failed
            /\ destOf(n).ok
            /\ destOf(n).val # NilV
            /\ Len(destOf(n).val.v) = Len(items)
            /\ \A j \in 1..(k - 1) :
                 destOf(n).val.v[j] = customFunc(n.Children[1].Method, items[j]).val
            /\ \A j \in k..Len(items) : destOf(n).val.v[j] = zeroOf(typeOf(n.ElemType))
            /\ \A i, j \in 1..Len(run.log) :
                 run.log[i].ev = "fail" /\ j > i => run.log[j].ev # "call"

\* a sequence of three elements whose second is the first to fail
C4_Witness ==
  /\ pc = "returned"
  /\ run.fn = "ConvertSlice"
  /\ run.status = "ok"
  /\ run.failed
  /\ run.arg.v["Items"] # NilV
  /\ Len(run.arg.v["Items"].v) = 3
  /\ \E h \in invokedHelpers : fallibleLoop(h.Body[1]) /\ MinOf(failsAt(h.Body[1])) = 2

\* the nodes that guard on a nil source
NilGuarded ==
  {nodeKindSliceMap, nodeKindMapMap, nodeKindPtrStructMap, nodeKindPtrMethodMap, nodeKindPtrFuncMap}

nilPtrToRecord ==
  {m \in methodsOf(out) :
     /\ pc = "returned"
     /\ m.Name = run.fn
     /\ run.arg = NilV
     /\ Len(m.Params) = 1
     /\ TKind(typeOf(m.Params[1].Type)) = "ptr"
     /\ isStructLike(TElem(typeOf(m.Params[1].Type)))
     /\ isStructLike(typeOf(m.DestType))}

\* the events of the log that belong to a call of the function named name
eventsOf(name) == SelectSeq(run.log, LAMBDA e : e.fn = name)

helperEvents(h) == SelectSeq(run.log, LAMBDA e : e.fn = h.Name /\ e.depth = helperDepth)

\* whether the helper's frame assigned the destination of its node n
assigned(h, n) == \E i \in 1..Len(helperEvents(h)) :
                    helperEvents(h)[i].ev = "assign" /\ helperEvents(h)[i].what = n.Dest

recordPlans ==
  {i \in 1..Len(g.helperPlans) :
     /\ ~g.helperPlans[i].Composite
     /\ g.helperPlans[i].CustomFuncName = ""
     /\ underlyingStruct(g.helperPlans[i].SrcGoType).s # NoStruct
     /\ underlyingStruct(g.helperPlans[i].DestGoType).s # NoStruct}

\* the exported fields of the destination record of a plan
exportedFields(plan) ==
  LET fs == StructFields(underlyingStruct(plan.DestGoType).s)
  IN {fs[i] : i \in {k \in 1..Len(fs) : fs[k].exported}}

\* no strategy resolves destination field df of the plan: it has no source
\* field, its annotation names a function that is missing or has the wrong
\* shape, or the types of the pair are not supported
noStrategy(plan, df) ==
  LET sStruct == underlyingStruct(plan.SrcGoType).s
      sfi == matchSourceField(sStruct, df)
      walk == walkPath(Split(df.mapsrc, "."), plan.SrcGoType, "in")
      path == df.mapsrc # "" /\ df.mapfn = "" /\ walk.ok
      srcType == IF path THEN walk.type ELSE StructFields(sStruct)[sfi].type
  IN \/ df.mapfn # "" /\ ~validMapFn(cfg.Scope, df.mapfn)
     \/ sfi = 0 /\ ~path
     \/ /\ df.mapfn = ""
        /\ strategyOf(g.registry, df.type, srcType, "") = "unsupported"

\* C11: a run over well-formed interfaces neither crashes nor returns an
\* error, and the planner gives every destination field that no strategy
\* resolves a diagnostic node while it plans every other exported field of
\* the record.
C11_UnresolvedIsDiagnosed ==
  /\ pc # "panic"
  /\ cfg.Interfaces \cap Malformed = {} => err = ""
  /\ \A i \in recordPlans :
       LET plan == g.helperPlans[i]
           r == helperStructPlans(g, plan, cfg.Scope)
       IN /\ ~r.panic
          /\ \A df \in exportedFields(plan) :
               /\ \E k \in 1..Len(r.fields) : r.fields[k] = df.name
               /\ noStrategy(plan, df) =>
                    \A k \in 1..Len(r.fields) :
                      r.fields[k] = df.name => r.nodes[k].Kind \in {nodeKindComment, nodeKindUnsupported}

(***************************************************************************)
(* C12: a malformed method stops the run.                                  *)
(***************************************************************************)
\* the interface the run plans next
planning == sortedInterfaces(cfg.Interfaces)[idx]

\* the names under which the registry holds interface methods
registeredMethods(gen) ==
  {gen.registry[k].Name : k \in {x \in DOMAIN gen.registry : gen.registry[x].Kind = regKindInterfaceMethod}}

\* the step that plans an interface with a malformed method: it ends the run
\* with an error naming the method and plans nothing after that method
stopsAtMalformed ==
  /\ pc' = "failed"
  /\ SubSeq(err', 1, 12) = "method " \o MalformedMethod(planning).Name \o ":"
  /\ interfaceModels' = interfaceModels
  /\ allPlans' = allPlans
  /\ "Gamma" \notin registeredMethods(g')
  /\ \A k \in DOMAIN g'.helperNames :
       k \notin DOMAIN g.helperNames => k = pairKey(NamedT("X"), NamedT("Y"))

\* C12: planning an interface with a method that has no parameter, no result
\* or more than two, a second result that is not error, no record or
\* collection parameter, or a pair that is neither record to record nor
\* collection to collection ends the run with an error naming that method;
\* nothing is planned by that step after the method and no step follows.
C12_MalformedStops ==
  [][/\ pc # "failed"
     /\ (pc = "build" /\ planning \in Malformed) => stopsAtMalformed
     /\ (pc = "build" /\ planning \notin Malformed) => err' = ""]_vars

\* a run stopped at the malformed method after planning the method before
\* it, with an interface of the command line left unplanned
C12_Witness ==
  /\ pc = "failed"
  /\ err # ""
  /\ "Alpha" \in registeredMethods(g)
  /\ \E b \in cfg.Interfaces \cap Malformed :
       /\ planning = b
       /\ idx < Len(sortedInterfaces(cfg.Interfaces))

(***************************************************************************)
(* C13: two runs over the same package.                                    *)
(***************************************************************************)
\* C13: the file a run emits is the file of any other run over the same
\* interfaces and declarations (here the run computed by generate): the same
\* helpers in the same order and the same nodes in every body, the nil
\* guards of a method with several pointer parameters included.
C13_SameIR ==
  pc = "done" => out = generate(cfg).file

(***************************************************************************)
(* C14: positional tokens in the source path of a method of several        *)
(* parameters.                                                             *)
(***************************************************************************)
\* the method bodies built so far
builtMethods ==
  UNION {{interfaceModels[i].Methods[k] : k \in 1..Len(interfaceModels[i].Methods)} :
           i \in 1..Len(interfaceModels)}

\* the position a token of the form pN names
positionOf(token) == CASE token = "p0" -> 0 [] token = "p1" -> 1 [] token = "p2" -> 2 [] OTHER -> -1

\* the parameters of a built method that are not the context, in order
valueParams(mm) == SelectSeq(mm.Params, LAMBDA p : p.Type # TypeString(CtxT))

\* the destination fields of a built method of several parameters whose
\* source path starts with a positional token that names a parameter holding
\* the rest of the path
positionalFields(mm) ==
  LET fs == StructFields(underlyingStruct(typeOf(mm.DestType)).s)
      holds(f, parts, n) ==
        /\ n >= 0
        /\ n < Len(valueParams(mm))
        /\ walkPath(Tail(parts), typeOf(valueParams(mm)[n + 1].Type), "").ok
  IN IF Len(mm.Params) < 2 THEN {}
     ELSE {f \in {fs[i] : i \in 1..Len(fs)} :
             f.exported /\ f.mapsrc # "" /\ holds(f, Split(f.mapsrc, "."), positionOf(Split(f.mapsrc, ".")[1]))}

\* the expression the field is read from: the path with its first token
\* replaced by the name of the parameter at that position
positionalSource(mm, f) ==
  LET token == Split(f.mapsrc, ".")[1]
  IN valueParams(mm)[positionOf(token) + 1].Name \o SubSeq(f.mapsrc, Len(token) + 1, Len(f.mapsrc))

\* C14: in a method of several parameters, a destination field whose source
\* path starts with pN is assigned from the N-th parameter, counted from
\* zero among the parameters other than the context, whether or not a
\* context parameter leads and whatever the parameters are named.
C14_PositionalToken ==
  \A mm \in builtMethods :
    \A f \in positionalFields(mm) :
      \E n \in 1..Len(mm.Body) :
        /\ mm.Body[n].Dest \in {"dst." \o f.name, "mapped." \o f.name}
        /\ mm.Body[n].Kind = nodeKindAssignDirect
        /\ mm.Body[n].Src = positionalSource(mm, f)

\* the three methods are built: without context, with a leading context,
\* and with parameters named p1 and p0 in that order; p0.Common is read from
\* the first parameter other than the context in each
C14_Witness ==
  /\ \E mm \in builtMethods :
       /\ mm.Name = "ComposeIdx"
       /\ \E n \in 1..Len(mm.Body) : mm.Body[n].Dest = "dst.Common" /\ mm.Body[n].Src = "p0.Common"
  /\ \E mm \in builtMethods :
       /\ mm.Name = "ComposeIdxContext"
       /\ mm.Params[1].Type = "context.Context"
       /\ \E n \in 1..Len(mm.Body) : mm.Body[n].Dest = "dst.Common" /\ mm.Body[n].Src = "p1.Common"
  /\ \E mm \in builtMethods :
       /\ mm.Name = "ComposeNamed"
       /\ mm.Params[1].Name = "p1"
       /\ positionalFields(mm) # {}
       /\ \E n \in 1..Len(mm.Body) : mm.Body[n].Dest = "dst.Common" /\ mm.Body[n].Src = "p1.Common"

(***************************************************************************)
(* C15: fields without annotation in a method of several parameters.       *)
(***************************************************************************)
\* the record behind parameter i of a built method ("" for none) and whether
\* the parameter points to it
recordOf(mm, i) == underlyingStruct(typeOf(mm.Params[i].Type))

\* the exported fields without source path of the destination record of a
\* built method of several parameters
plainFields(mm) ==
  LET fs == StructFields(underlyingStruct(typeOf(mm.DestType)).s)
  IN IF Len(mm.Params) < 2 \/ \A n \in 1..Len(mm.Body) : mm.Body[n].Kind # nodeKindDestInit THEN {}
     ELSE {f \in {fs[i] : i \in 1..Len(fs)} : f.exported /\ f.mapsrc = ""}

\* the source the order of the claim gives field f: the primary parameter's
\* field of that name, else that of the first other record parameter having
\* one, else the first parameter of the field's own type, else none ("")
orderedSource(mm, f) ==
  LET hasField(i) == /\ mm.Params[i].Type # TypeString(CtxT)
                     /\ recordOf(mm, i).s # NoStruct
                     /\ findMatchingSourceField(recordOf(mm, i).s, f.name) # 0
      primary == {i \in 1..Len(mm.Params) : mm.Params[i].Name = mm.PrimaryParam /\ hasField(i)}
      others == {i \in 1..Len(mm.Params) : mm.Params[i].Name # mm.PrimaryParam /\ hasField(i)}
      whole == {i \in 1..Len(mm.Params) :
                  mm.Params[i].Type # TypeString(CtxT) /\ typeOf(mm.Params[i].Type) = f.type}
      field(i) == prefixSrc(mm.Params[i].Name, recordOf(mm, i).isPtr) \o f.name
  IN IF primary # {} THEN field(MinOf(primary))
     ELSE IF others # {} THEN field(MinOf(others))
     ELSE IF whole # {} THEN mm.Params[MinOf(whole)].Name
     ELSE ""

\* C15: a destination field without annotation of a method of several
\* parameters is assigned from the first source in the order primary
\* parameter's field, other record parameters' fields in declaration order,
\* parameter of the field's whole type; it gets a diagnostic node, and no
\* assignment, only when there is none.
C15_ResolutionOrder ==
  \A mm \in builtMethods :
    \A f \in plainFields(mm) :
      LET dest == {"dst." \o f.name, "mapped." \o f.name}
          assigns == {n \in 1..Len(mm.Body) : mm.Body[n].Dest \in dest}
          diagnoses == {n \in 1..Len(mm.Body) :
                          mm.Body[n].Kind = nodeKindComment /\ mm.Body[n].Comment = "no source for " \o f.name}
      IN IF orderedSource(mm, f) = "" THEN assigns = {} /\ diagnoses # {}
         ELSE /\ diagnoses = {}
              /\ assigns # {}
              /\ \A n \in assigns : orderedSource(mm, f) \in {mm.Body[n].Src, mm.Body[n].Arg}

\* Assemble(c Core, m Meta, x Extra) is built: ID comes from the primary
\* parameter, Version from m although x has a Version too, Note from x, Info
\* from the parameter of its own type, and Gone has no source
C15_Witness ==
  \E mm \in builtMethods :
    /\ mm.Name = "Assemble"
    /\ \E n \in 1..Len(mm.Body) : mm.Body[n].Dest = "dst.ID" /\ mm.Body[n].Src = "c.ID"
    /\ \E n \in 1..Len(mm.Body) : mm.Body[n].Dest = "dst.Version" /\ mm.Body[n].Src = "m.Version"
    /\ \E n \in 1..Len(mm.Body) : mm.Body[n].Dest = "dst.Note" /\ mm.Body[n].Src = "x.Note"
    /\ \E n \in 1..Len(mm.Body) : mm.Body[n].Dest = "dst.Info" /\ mm.Body[n].Src = "m"
    /\ \E n \in 1..Len(mm.Body) : mm.Body[n].Comment = "no source for Gone"


\* ---------------------------------------------------------------------------
\* C16: providers of the exact pair

\* the entries the registry holds for the pair, under the plain key or under
\* the key of the fallible variant
providersOf(registry, srcType, destType) ==
  {registry[k] : k \in DOMAIN registry \cap {pairKey(srcType, destType),
                                             pairKey(srcType, destType) \o "#err"}}

\* a free function is always usable; a method only from a top-level method
\* other than itself
usableAt(e, cm) == e.Name # cm /\ (e.Kind = regKindCustomFunc \/ cm # "")

\* C16: when the registry holds a provider, fallible or not, of the exact
\* pair of an assignment whose types are neither identical nor assignable,
\* and the provider is usable at the call site, the resolver emits one call
\* node to that provider whose WithError is the provider's fallibility, for
\* pairs of records and for other pairs alike.
C16_ProviderIsCalled ==
  (pc = "resolved" /\ req.srcType # req.destType /\ ~AssignableTo(req.srcType, req.destType)) =>
    \A e \in providersOf(g.registry, req.srcType, req.destType) :
       usableAt(e, req.currentMethod) =>
         /\ Len(req.nodes) = 1
         /\ req.nodes[1].Kind = IF e.Kind = regKindCustomFunc THEN nodeKindAssignFunc
                                                                 ELSE nodeKindAssignMethod
         /\ req.nodes[1].Method = e.Name
         /\ req.nodes[1].WithError = e.HasError


\* ---------------------------------------------------------------------------
\* C17: each helper plan is populated once

\* the helper models appended so far for the plan of that name
modelsOf(gen, name) == {k \in 1..Len(gen.helperModels) : gen.helperModels[k].Name = name}

\* C17: over the run, with the populate pass made before and after the
\* method bodies are built, every reserved helper plan is populated once: an
\* iteration that computes the body of a plan leaves its Populated flag set
\* in g.helperPlans, also when plans were appended during that iteration;
\* a set flag stays set; and no plan ever has two helper models.
C17_PopulatedOnce ==
  [][/\ \A i \in 1..Len(g.helperPlans) :
          g.helperPlans[i].Populated => g'.helperPlans[i].Populated
     /\ (pc \in {"populate1", "populate2"} /\ idx <= Len(g.helperPlans) /\ pc' # "panic") =>
          g'.helperPlans[idx].Populated
     /\ \A i \in 1..Len(g'.helperPlans) :
          Cardinality(modelsOf(g', g'.helperPlans[i].Name)) <= 1]_vars


\* ---------------------------------------------------------------------------
\* C18: a field annotated with mapfn and mapsrc together

\* the exported destination fields of a plan that carry both annotations
doublyAnnotated(plan) == {df \in exportedFields(plan) : df.mapfn # "" /\ df.mapsrc # ""}

\* C18: a destination field that carries a mapfn and a mapsrc annotation is
\* rejected: planning its record does not crash, and the field gets a
\* diagnostic node and neither a call of the named function nor an
\* assignment.
C18_BothAnnotationsRejected ==
  \A i \in recordPlans :
     LET plan == g.helperPlans[i]
         rejected(r) ==
           /\ ~r.panic
           /\ \A df \in doublyAnnotated(plan) :
                /\ \E k \in 1..Len(r.fields) : r.fields[k] = df.name
                /\ \A k \in 1..Len(r.fields) :
                     r.fields[k] = df.name => r.nodes[k].Kind = nodeKindComment
     IN doublyAnnotated(plan) # {} => rejected(helperStructPlans(g, plan, cfg.Scope))


\* ---------------------------------------------------------------------------
\* C19: the helper of a pointer pair

\* the request resolved is a pointer to a record assigned to a pointer to a
\* record of another type, and the registry has no provider the resolver may
\* call for the pair or for its pointees
pointerPairWithoutProvider ==
  /\ pc = "resolved"
  /\ TKind(req.srcType) = "ptr" /\ TKind(req.destType) = "ptr"
  /\ isStructLike(TElem(req.srcType)) /\ isStructLike(TElem(req.destType))
  /\ req.srcType # req.destType
  /\ ~AssignableTo(req.srcType, req.destType)
  /\ ~providerFor(g.registry, req.srcType, req.destType, req.currentMethod)
  /\ ~providerFor(g.registry, TElem(req.srcType), TElem(req.destType), req.currentMethod)

\* the helper reserved for the request has source type s and destination
\* type d: the memo table names it under the key of (s, d), the node calls
\* it, and its plan carries s and d
helperReservedFor(s, d) ==
  /\ Len(req.nodes) = 1
  /\ req.nodes[1].Kind = nodeKindPtrStructMap
  /\ pairKey(s, d) \in DOMAIN g.helperNames
  /\ g.helperNames[pairKey(s, d)] = req.nodes[1].Helper
  /\ \E i \in 1..Len(g.helperPlans) :
       /\ g.helperPlans[i].Name = req.nodes[1].Helper
       /\ g.helperPlans[i].SrcGoType = s
       /\ g.helperPlans[i].DestGoType = d

\* C19 as claimed: for a pointer-to-record to pointer-to-record assignment
\* with no usable provider the resolver requests the struct helper of the
\* two pointee record types.
C19_HelperOfPointees ==
  pointerPairWithoutProvider => helperReservedFor(TElem(req.srcType), TElem(req.destType))

\* C19: for a pointer-to-record to pointer-to-record assignment with no
\* usable provider the resolver requests the struct helper of the two
\* pointer types themselves: the memo key and the plan's source and
\* destination types are the pointer types, the plan is marked as taking and
\* returning a pointer, and nothing is reserved for the pointees.
C19_HelperOfPointers ==
  pointerPairWithoutProvider =>
    /\ helperReservedFor(req.srcType, req.destType)
    /\ pairKey(TElem(req.srcType), TElem(req.destType)) \notin DOMAIN g.helperNames
    /\ \A i \in 1..Len(g.helperPlans) :
         /\ g.helperPlans[i].SrcIsPtr /\ g.helperPlans[i].DestIsPtr
         /\ g.helperPlans[i].ZeroReturn = "nil"
         /\ g.helperPlans[i].UnderDestType = TypeString(TElem(req.destType))

C19_Witness ==
  /\ pointerPairWithoutProvider
  /\ req.srcType = PtrT(NamedT("X")) /\ req.destType = PtrT(NamedT("Y"))
  /\ g.helperNames = ("*X->*Y" :> "map_Ptr_X_to_Ptr_Y")


\* ---------------------------------------------------------------------------
\* C20: a pointer pair whose pointees have a provider

\* the nodes of the invoked helpers that convert a pointer by a provider of
\* its pointee, their source readable in the call made
providerOnPointer ==
  UNION {{h.Body[p] : p \in {q \in 1..Len(h.Body) :
                              /\ h.Body[q].Kind \in {nodeKindPtrMethodMap, nodeKindPtrFuncMap}
                              /\ srcOf(h.Body[q]).ok}} :
           h \in invokedHelpers}

\* C20: for a pointer-to-record to pointer-to-record assignment whose
\* pointees have a usable provider, the generated code leaves the
\* destination nil for a nil source and, for a source that is not nil,
\* applies the provider to the record the source points to and stores a
\* pointer to the converted record.
C20_UnwrapConvertRewrap ==
  pc = "returned" =>
    \A n \in providerOnPointer :
       /\ run.status = "ok"
       /\ destOf(n).ok
       /\ IF srcOf(n).val = NilV THEN destOf(n).val = NilV
          ELSE /\ customFunc(n.Method, srcOf(n).val.v).ok
               /\ destOf(n).val = Val("ptr", customFunc(n.Method, srcOf(n).val.v).val)


\* ---------------------------------------------------------------------------
\* C21: a source path whose walk fails

\* the last segment of a dotted path
lastSegment(path) == Split(path, ".")[Len(Split(path, "."))]

\* the exported destination fields of a helper plan whose source path cannot
\* be walked from the source record while its last segment names a field of
\* that record
failedPathFields(plan) ==
  {df \in exportedFields(plan) :
     /\ df.mapsrc # "" /\ df.mapfn = ""
     /\ ~walkPath(Split(df.mapsrc, "."), plan.SrcGoType, "in").ok
     /\ findMatchingSourceField(underlyingStruct(plan.SrcGoType).s, lastSegment(df.mapsrc)) # 0}

\* the same for a built method of several parameters: the first token names
\* parameter i, the rest of the path cannot be walked from its record, and
\* the last segment names a field of that record
failedMethodPaths(mm) ==
  LET fs == StructFields(underlyingStruct(typeOf(mm.DestType)).s)
      from(f) == {i \in 1..Len(mm.Params) : mm.Params[i].Name = Split(f.mapsrc, ".")[1]}
      failed(f, i) ==
        /\ recordOf(mm, i).s # NoStruct
        /\ ~walkPath(Tail(Split(f.mapsrc, ".")), typeOf(mm.Params[i].Type), "").ok
        /\ findMatchingSourceField(recordOf(mm, i).s, lastSegment(f.mapsrc)) # 0
  IN IF Len(mm.Params) < 2 THEN {}
     ELSE {p \in {<<fs[k], i>> : k \in 1..Len(fs), i \in 1..Len(mm.Params)} :
             p[1].exported /\ p[1].mapsrc # "" /\ p[2] \in from(p[1]) /\ failed(p[1], p[2])}

\* C21: when the walk of a source path fails partway, the field is matched
\* by name with the path's last segment as the source field name, in a
\* helper body and in the body of a method of several parameters, whatever
\* the number of segments.
C21_LastSegmentFallback ==
  /\ \A i \in recordPlans :
       LET plan == g.helperPlans[i]
           matched(r) ==
             \A df \in failedPathFields(plan) :
               \A k \in 1..Len(r.fields) :
                 r.fields[k] = df.name =>
                   "in." \o lastSegment(df.mapsrc) \in {r.nodes[k].Src, r.nodes[k].Arg}
       IN failedPathFields(plan) # {} => matched(helperStructPlans(g, plan, cfg.Scope))
  /\ \A mm \in builtMethods :
       \A p \in failedMethodPaths(mm) :
         \E n \in 1..Len(mm.Body) :
           /\ mm.Body[n].Dest \in {"dst." \o p[1].name, "mapped." \o p[1].name}
           /\ prefixSrc(mm.Params[p[2]].Name, recordOf(mm, p[2]).isPtr) \o lastSegment(p[1].mapsrc)
                \in {mm.Body[n].Src, mm.Body[n].Arg}


\* ---------------------------------------------------------------------------
\* C22: helper calls after the error-propagation pass

\* the error-propagation pass has run
analyzed == pc \in {"context", "emit", "done"}

\* every node, at any depth, of the helper bodies and the method bodies
finalNodes ==
  UNION {flattenNodes(g.helperModels[i].Body) : i \in 1..Len(g.helperModels)}
    \cup UNION {flattenNodes(mm.Body) : mm \in builtMethods}

\* the final nodes that call a helper, directly or under a nil test
helperCalls == {n \in finalNodes : n.Kind \in {nodeKindAssignHelper, nodeKindPtrStructMap}}

\* C22: after the error-propagation pass every helper-call node and every
\* pointer-wrapped helper-call node of a method body or a helper body, at any
\* depth inside loop children, carries WithError when its target helper is
\* in the fallible set.
C22_CallsCarryFailure ==
  analyzed => \A n \in helperCalls : n.Helper \in helperErr => n.WithError

\* a call of a fallible helper from inside a loop, and one from a helper's
\* own field list
C22_Witness ==
  /\ pc = "done"
  /\ \E i \in 1..Len(g.helperModels) : \E k \in 1..Len(g.helperModels[i].Body) :
       /\ g.helperModels[i].Body[k].Kind \in {nodeKindSliceMap, nodeKindMapMap}
       /\ \E c \in 1..Len(g.helperModels[i].Body[k].Children) :
            /\ g.helperModels[i].Body[k].Children[c].Kind = nodeKindAssignHelper
            /\ g.helperModels[i].Body[k].Children[c].Helper \in helperErr
            /\ g.helperModels[i].Body[k].Children[c].WithError
  /\ \E i \in 1..Len(g.helperModels) : \E k \in 1..Len(g.helperModels[i].Body) :
       /\ g.helperModels[i].Body[k].Kind = nodeKindAssignHelper
       /\ g.helperModels[i].Body[k].Helper \in helperErr


\* ---------------------------------------------------------------------------
\* C23: the failing-loop flag in the final IR

\* the slice and map loops of the final IR
finalLoops == {n \in finalNodes : n.Kind \in {nodeKindSliceMap, nodeKindMapMap}}

\* C23: in the final IR every slice or map loop node has LoopWithError set
\* whenever one of its child nodes may fail, also when the child is a helper
\* call whose helper was found fallible only by the error-propagation pass.
C23_FailingLoopFlagged ==
  analyzed => \A n \in finalLoops : anyWithError(n.Children) => n.LoopWithError


\* ---------------------------------------------------------------------------
\* C24: where interface-method providers are called

\* the nodes that call a method on the mapper's receiver
methodCallKinds == {nodeKindAssignMethod, nodeKindPtrMethodMap}

\* the method-call nodes, at any depth, of a body
methodCalls(body) == {n \in flattenNodes(body) : n.Kind \in methodCallKinds}

\* C24: interface-method providers are used only while a top-level
\* interface method other than the provider is being built: no helper body
\* contains a call of an interface method, and no interface method body
\* contains a call of the method itself.
C24_MethodProvidersAtTopLevel ==
  /\ \A i \in 1..Len(g.helperModels) : methodCalls(g.helperModels[i].Body) = {}
  /\ \A mm \in builtMethods : \A n \in methodCalls(mm.Body) : n.Method # mm.Name

\* Chain(n Node, x Extra) NodeDTO built next to UserMapper: its body calls
\* ToDTO for Owner and a helper, not Chain, for Next; the helper's body, with
\* Chain and ToDTO in the registry for its two fields, calls helpers
C24_Witness ==
  /\ pc = "done"
  /\ pairKey(NamedT("Node"), NamedT("NodeDTO")) \in DOMAIN g.registry
  /\ g.registry[pairKey(NamedT("Node"), NamedT("NodeDTO"))].Name = "Chain"
  /\ pairKey(NamedT("User"), NamedT("UserDTO")) \in DOMAIN g.registry
  /\ g.registry[pairKey(NamedT("User"), NamedT("UserDTO"))].Kind = regKindInterfaceMethod
  /\ \E mm \in builtMethods :
       /\ mm.Name = "Chain"
       /\ \E n \in methodCalls(mm.Body) : n.Method = "ToDTO"
       /\ \E n \in flattenNodes(mm.Body) : n.Kind = nodeKindPtrStructMap /\ n.Dest = "dst.Next"
  /\ \E i \in 1..Len(g.helperModels) :
       /\ g.helperModels[i].SrcType = TypeString(PtrT(NamedT("Node")))
       /\ \E n \in flattenNodes(g.helperModels[i].Body) :
            n.Kind = nodeKindAssignHelper /\ n.Dest = "dst.Owner"
       /\ \E n \in flattenNodes(g.helperModels[i].Body) :
            n.Kind = nodeKindPtrStructMap /\ n.Dest = "dst.Next"


\* ---------------------------------------------------------------------------
\* C26: helper names are collision-free

\* the helper models that describe the same helper: name and type pair
sameHelper(a, b) == a.Name = b.Name /\ a.SrcType = b.SrcType /\ a.DestType = b.DestType

\* C26: two distinct memo keys (two distinct pairs of types, or the struct
\* helper and the collection helper of one pair) never get the same helper
\* name, and the de-duplication by name never drops a helper that belongs
\* to another pair of types than the one it keeps under that name.
C26_NamesCollisionFree ==
  [][/\ \A k1, k2 \in DOMAIN g'.helperNames : k1 # k2 => g'.helperNames[k1] # g'.helperNames[k2]
     /\ pc = "dedup" =>
          \A i \in 1..Len(g.helperModels) : \E j \in 1..Len(g'.helperModels) :
             sameHelper(g.helperModels[i], g'.helperModels[j])]_vars


\* ---------------------------------------------------------------------------
\* C27: every referenced helper is handed to the emitter once

\* the populate passes and the de-duplication are over
deduplicated == pc \in {"analyze", "context", "emit", "done"}

\* the helper names the final IR refers to: the targets of helper calls at
\* any depth and the helpers the methods' Return nodes delegate to
referencedHelpers ==
  {n.Helper : n \in helperCalls}
    \cup {returnCallee(n.Expr) :
             n \in {m \in UNION {flattenNodes(mm.Body) : mm \in builtMethods} :
                      m.Kind = nodeKindReturn /\ returnCallee(m.Expr) # ""}}

\* C27: after the populate passes and the de-duplication every helper name
\* referenced by a helper-call node, a pointer-wrapped helper-call node or a
\* method's delegating Return node has exactly one helper in the list handed
\* to the emitter, also for a destination record with no exported fields.
C27_ReferencedHelperEmitted ==
  deduplicated => \A name \in referencedHelpers : Cardinality(modelsOf(g, name)) = 1


\* ---------------------------------------------------------------------------
\* C28: call sites and helper signatures agree on the context

\* the number of arguments of a call expression `f(a, b)`: its commas plus one
argCount(expr) == Cardinality({i \in 1..Len(expr) : SubSeq(expr, i, i) = ","}) + 1

\* the Return nodes of a body that delegate to a helper
delegations(body) ==
  {n \in flattenNodes(body) : n.Kind = nodeKindReturn /\ returnCallee(n.Expr) # ""}

\* the helper calls, at any depth, of a body
helperCallsOf(body) ==
  {n \in flattenNodes(body) : n.Kind \in {nodeKindAssignHelper, nodeKindPtrStructMap}}

\* C28: when some interface method of the run takes a context, so that every
\* helper's signature takes one, every call of a helper in a method body, in
\* a helper body or in a loop child passes a context argument, and every
\* caller has a context in scope: a method that calls a helper takes a
\* context itself, and every helper does.
C28_ContextThreaded ==
  (pc \in {"emit", "done"} /\ needContext(interfaceModels)) =>
    /\ \A i \in 1..Len(g.helperModels) :
         /\ g.helperModels[i].HasContext
         /\ \A n \in helperCallsOf(g.helperModels[i].Body) : n.UseContext
    /\ \A mm \in builtMethods :
         /\ \A n \in helperCallsOf(mm.Body) : n.UseContext /\ mm.HasContext
         /\ \A n \in delegations(mm.Body) : argCount(n.Expr) = 2 /\ mm.HasContext


\* ---------------------------------------------------------------------------
\* C29: method calls stay inside the interface

\* the names of the methods an interface declares
declaredMethods(name) == {IfaceMethods(name)[k].Name : k \in 1..Len(IfaceMethods(name))}

\* C29: every interface-method call node in the body of a method of an
\* interface names a method that this interface declares, whichever
\* interfaces are processed together in the run.
C29_CallsOwnInterface ==
  \A i \in 1..Len(interfaceModels) : \A k \in 1..Len(interfaceModels[i].Methods) :
     \A n \in methodCalls(interfaceModels[i].Methods[k].Body) :
        n.Method \in declaredMethods(interfaceModels[i].Name)


\* ---------------------------------------------------------------------------
\* C30: what the early return of a failed field assignment returns

\* an expression that selects a field: `dst.F`, `mapped.F`
isFieldExpr(e) == \E i \in 1..Len(e) : SubSeq(e, i, i) = "."

\* the nodes that call a helper, a method or a function
callKinds ==
  {nodeKindAssignHelper, nodeKindAssignMethod, nodeKindAssignFunc,
   nodeKindPtrStructMap, nodeKindPtrMethodMap, nodeKindPtrFuncMap}

\* the fallible call nodes of the emitted file that assign a field of the
\* destination of their helper or method
fallibleFieldCalls ==
  {n \in UNION {flattenNodes(out.Helpers[i].Body) : i \in 1..Len(out.Helpers)}
            \cup UNION {flattenNodes(m.Body) : m \in methodsOf(out)} :
     n.Kind \in callKinds /\ n.WithError /\ isFieldExpr(n.Dest)}

\* C30: for every fallible call node that assigns a field of the
\* destination of a helper or method, the early return emitted for a failure
\* returns the function's whole destination with the error and not the
\* expression of the field being assigned; a call of the generated function
\* in which such a call fails returns a failure to its caller.
C30_FailureReturnsDestination ==
  /\ \A n \in fallibleFieldCalls :
       failureReturn(n).returns /\ ~isFieldExpr(failureReturn(n).expr)
  /\ pc = "returned" =>
       \A i \in 1..Len(run.log) :
          (run.log[i].ev = "fail" /\ isFieldExpr(run.log[i].what)) =>
             run.status = "ok" /\ run.failed

====
